---- MODULE Spec2Model ----
(***************************************************************************)
(* Resilience layer of the MS Graph MCP server: token-bucket rate limiter, *)
(* three-state circuit breaker and the retrying SecureGraphClient that     *)
(* composes them.                                                          *)
(*                                                                         *)
(* Time is in milliseconds.  Token amounts are exact rationals held as     *)
(* integers in units of 1/TokenUnit token, so that elapsedMs * refillRate  *)
(* (refillRate = maxRequestsPerMinute / 60000 tokens per ms) is the        *)
(* integer elapsedMs * maxRequestsPerMinute.                               *)
(***************************************************************************)
EXTENDS Integers, Sequences, FiniteSets, TLC

VARIABLES
    now,            \* Date.now()
    config,         \* the readonly constructor arguments
    rateLimiter,    \* RateLimiter: [tokens, lastRefillTime]
    circuitBreaker, \* CircuitBreaker: [state, failureCount, successCount, nextAttemptTime]
    pc,             \* position of every asynchronous call
    call,           \* per-call bookkeeping of the client (attempt, error, ...)
    last,           \* what the most recent operation returned or threw
    hist            \* history: counts of what happened (not program state)

vars == <<now, config, rateLimiter, circuitBreaker, pc, call, last, hist>>

----------------------------------------------------------------------------
(* Bounds of the model *)

MaxNow == 5000
MaxBurst == 3
MaxChecks == 4
MaxThreshold == 3
MaxClientNow == 5000
NumCalls == 3
NumClientCalls == 1
MaxRetryCap == 3
RandomSteps == 2
MaxIdLen == 2
MaxMessageLen == 2
NumConcurrentCalls == 2
MaxNowF64 == 6000

(* Program constants *)

\* an optional configuration field that was left out
Undefined == -1

TokenUnit == 60000
DefaultMaxRequestsPerMinute == 60
DefaultFailureThreshold == 5
DefaultSuccessThreshold == 2
DefaultTimeout == 60000
DefaultMaxRetries == 3
DefaultBaseRetryDelayMs == 1000
IdMaxLength == 200
TitleMaxLength == 400
QueryMaxLength == 1000
DueDateMaxYears == 5

Calls == 1..NumCalls

Min(a, b) == IF a <= b THEN a ELSE b

\* Math.ceil(a / b) for a >= 0, b > 0
Ceil(a, b) == (a + b - 1) \div b

\* Math.floor(a / b) for a >= 0, b > 0
Floor(a, b) == a \div b

----------------------------------------------------------------------------
(* RateLimiter *)

\* constructor(config): burstAllowance ?? maxRequestsPerMinute, full bucket
burstAllowance(cfg) ==
    IF cfg.burstAllowance = Undefined THEN cfg.maxRequestsPerMinute
    ELSE cfg.burstAllowance

capacity(cfg) == burstAllowance(cfg) * TokenUnit

RateLimiterNew(cfg, t) == [tokens |-> capacity(cfg), lastRefillTime |-> t]

\* a refill that forgets the ceiling
refillTokensNoCeiling(rl, cfg, t) ==
    LET elapsedMs == t - rl.lastRefillTime
        tokensToAdd == elapsedMs * cfg.maxRequestsPerMinute
    IN IF tokensToAdd > 0
       THEN [tokens |-> rl.tokens + tokensToAdd, lastRefillTime |-> t]
       ELSE rl

refillTokens(rl, cfg, t) ==
    LET elapsedMs == t - rl.lastRefillTime
        tokensToAdd == elapsedMs * cfg.maxRequestsPerMinute
    IN IF tokensToAdd > 0
       THEN [tokens |-> Min(capacity(cfg), rl.tokens + tokensToAdd),
             lastRefillTime |-> t]
       ELSE rl

\* a check that admits on any positive fraction of a token
checkLimitAdmitsFraction(rl, cfg, t) ==
    LET r == refillTokens(rl, cfg, t)
    IN IF r.tokens <= 0
       THEN [rl |-> r, ok |-> FALSE,
             waitTimeMs |-> Ceil(TokenUnit - r.tokens, cfg.maxRequestsPerMinute)]
       ELSE [rl |-> [r EXCEPT !.tokens = @ - TokenUnit], ok |-> TRUE,
             waitTimeMs |-> 0]

\* checkLimit(): the new bucket, and whether it returned or threw
\* RateLimitError(waitTimeMs)
checkLimit(rl, cfg, t) ==
    LET r == refillTokens(rl, cfg, t)
    IN IF r.tokens < TokenUnit
       THEN [rl |-> r, ok |-> FALSE,
             waitTimeMs |-> Ceil(TokenUnit - r.tokens, cfg.maxRequestsPerMinute)]
       ELSE [rl |-> [r EXCEPT !.tokens = @ - TokenUnit], ok |-> TRUE,
             waitTimeMs |-> 0]

getAvailableTokens(rl, cfg, t) ==
    LET r == refillTokens(rl, cfg, t) IN [rl |-> r, value |-> r.tokens]

RateLimiterReset(rl, cfg, t) == [tokens |-> capacity(cfg), lastRefillTime |-> t]

----------------------------------------------------------------------------
(* CircuitBreaker *)

CircuitBreakerNew ==
    [state |-> "CLOSED", failureCount |-> 0, successCount |-> 0,
     nextAttemptTime |-> 0]

\* an entry check that lets calls through while the circuit is open
executeIgnoresOpen(cb, cfg, t) ==
    IF cb.state = "OPEN" /\ t >= cb.nextAttemptTime
    THEN [cb |-> [cb EXCEPT !.state = "HALF_OPEN", !.successCount = 0],
          invoke |-> TRUE]
    ELSE [cb |-> cb, invoke |-> TRUE]

\* an entry check that keeps the success counter when it goes half-open
executeKeepsSuccessCount(cb, cfg, t) ==
    IF cb.state = "OPEN"
    THEN IF t < cb.nextAttemptTime
         THEN [cb |-> cb, invoke |-> FALSE]
         ELSE [cb |-> [cb EXCEPT !.state = "HALF_OPEN",
                                 !.successCount = cb.failureCount],
               invoke |-> TRUE]
    ELSE [cb |-> cb, invoke |-> TRUE]

\* execute(fn) up to the call of fn: invoke = FALSE when it throws the
\* circuit-open GraphAPIError instead of calling fn
execute(cb, cfg, t) ==
    IF cb.state = "OPEN"
    THEN IF t < cb.nextAttemptTime
         THEN [cb |-> cb, invoke |-> FALSE]
         ELSE [cb |-> [cb EXCEPT !.state = "HALF_OPEN", !.successCount = 0],
               invoke |-> TRUE]
    ELSE [cb |-> cb, invoke |-> TRUE]

\* a success handler that leaves the failure counter alone
onSuccessKeepsFailureCount(cb, cfg) ==
    IF cb.state = "HALF_OPEN"
    THEN LET c2 == [cb EXCEPT !.successCount = @ + 1]
         IN IF c2.successCount >= cfg.successThreshold
            THEN [c2 EXCEPT !.state = "CLOSED", !.successCount = 0]
            ELSE c2
    ELSE cb

\* a success handler that closes one success late
onSuccessClosesLate(cb, cfg) ==
    LET c1 == [cb EXCEPT !.failureCount = 0]
    IN IF c1.state = "HALF_OPEN"
       THEN LET c2 == [c1 EXCEPT !.successCount = @ + 1]
            IN IF c2.successCount > cfg.successThreshold
               THEN [c2 EXCEPT !.state = "CLOSED", !.successCount = 0]
               ELSE c2
       ELSE c1

onSuccess(cb, cfg) ==
    LET c1 == [cb EXCEPT !.failureCount = 0]
    IN IF c1.state = "HALF_OPEN"
       THEN LET c2 == [c1 EXCEPT !.successCount = @ + 1]
            IN IF c2.successCount >= cfg.successThreshold
               THEN [c2 EXCEPT !.state = "CLOSED", !.successCount = 0]
               ELSE c2
       ELSE c1

\* a failure handler that opens one failure late
onFailureOpensLate(cb, cfg, t) ==
    LET c1 == [cb EXCEPT !.failureCount = @ + 1, !.successCount = 0]
    IN IF c1.failureCount > cfg.failureThreshold
       THEN [c1 EXCEPT !.state = "OPEN", !.nextAttemptTime = t + cfg.timeout]
       ELSE c1

\* a failure handler that leaves the success counter alone
onFailureKeepsSuccessCount(cb, cfg, t) ==
    LET c1 == [cb EXCEPT !.failureCount = @ + 1]
    IN IF c1.failureCount >= cfg.failureThreshold
       THEN [c1 EXCEPT !.state = "OPEN", !.nextAttemptTime = t + cfg.timeout]
       ELSE c1

onFailure(cb, cfg, t) ==
    LET c1 == [cb EXCEPT !.failureCount = @ + 1, !.successCount = 0]
    IN IF c1.failureCount >= cfg.failureThreshold
       THEN [c1 EXCEPT !.state = "OPEN", !.nextAttemptTime = t + cfg.timeout]
       ELSE c1

getState(cb, t) ==
    IF cb.state = "OPEN" /\ t >= cb.nextAttemptTime THEN "HALF_OPEN"
    ELSE cb.state

\* a reset that zeroes the counters and leaves the circuit as it is
CircuitBreakerResetKeepsState(cb) ==
    [cb EXCEPT !.failureCount = 0, !.successCount = 0]

\* a reset that closes the circuit and leaves the failure counter alone
CircuitBreakerResetKeepsFailures(cb) ==
    [state |-> "CLOSED", failureCount |-> cb.failureCount,
     successCount |-> 0, nextAttemptTime |-> 0]

CircuitBreakerReset(cb) ==
    [state |-> "CLOSED", failureCount |-> 0, successCount |-> 0,
     nextAttemptTime |-> 0]

----------------------------------------------------------------------------
(* Errors: the class tested by instanceof, the name, and the message as a  *)
(* sequence of words.                                                      *)

NoError == [class |-> "none", name |-> "none", message |-> <<>>]

RateLimitError ==
    [class |-> "RateLimitError", name |-> "RateLimitError",
     message |-> <<"Rate", "limit", "exceeded", ".", "Please", "wait">>]

CircuitOpenError ==
    [class |-> "GraphAPIError", name |-> "GraphAPIError",
     message |-> <<"Service", "temporarily", "unavailable", ".",
                   "Circuit", "breaker", "is", "open", ".">>]

UnauthorizedError ==
    [class |-> "AuthenticationError", name |-> "AuthenticationError",
     message |-> <<"Authentication", "token", "invalid", "or", "expired">>]

TooManyRequestsError ==
    [class |-> "GraphAPIError", name |-> "GraphAPIError",
     message |-> <<"Rate", "limit", "exceeded", ".",
                   "Please", "try", "again", "later", ".">>]

UnavailableError ==
    [class |-> "GraphAPIError", name |-> "GraphAPIError",
     message |-> <<"Microsoft", "Graph", "service", "temporarily",
                   "unavailable">>]

StatusError ==
    [class |-> "GraphAPIError", name |-> "GraphAPIError",
     message |-> <<"Graph", "API", "request", "failed", "with", "status">>]

\* response.json() of a body that is not JSON
JsonError ==
    [class |-> "Error", name |-> "SyntaxError",
     message |-> <<"Unexpected", "end", "of", "JSON", "input">>]

\* what the token provider throws
NoTokensError ==
    [class |-> "AuthenticationError", name |-> "AuthenticationError",
     message |-> <<"No", "tokens", "stored">>]

TokenStorageError ==
    [class |-> "Error", name |-> "TokenStorageError",
     message |-> <<"No", "tokens", "found">>]

TokenErrors == {NoTokensError, TokenStorageError}

\* what fetch() throws
ThrownError(name) ==
    [class |-> "Error", name |-> name, message |-> <<"fetch", "failed">>]

\* String.prototype.includes on word sequences
includes(message, needle) ==
    \E i \in 1..(Len(message) - Len(needle) + 1) :
        SubSeq(message, i, i + Len(needle) - 1) = needle

----------------------------------------------------------------------------
(* SecureGraphClient *)

Verbs == {"GET", "POST", "PATCH", "DELETE"}

\* what the transport does with one request: a response with a status and a
\* body that parses as JSON or not, or a thrown error
Statuses == {200, 204, 401, 429, 500, 503, 504}

FetchOutcomes ==
    [kind : {"response"}, status : Statuses \ {204}, json : {TRUE},
     name : {"none"}]
    \cup [kind : {"response"}, status : {200, 204}, json : {FALSE},
          name : {"none"}]
    \cup [kind : {"throw"}, status : {0}, json : {FALSE},
          name : {"FetchError", "NetworkError", "TypeError"}]

\* the outcome of the latest attempt of a call: nothing yet, a failure of the
\* token provider, or what fetch() did
NoneSeen == [kind |-> "none", status |-> 0, json |-> FALSE, name |-> "none"]

TokenSeen(e) == [kind |-> "token", status |-> 0, json |-> FALSE, name |-> e.name]

Response(status) ==
    [kind |-> "response", status |-> status, json |-> TRUE, name |-> "none"]

responseOk(status) == status >= 200 /\ status <= 299

\* what an attempt settles with: the value it resolves to ("body" is the
\* parsed JSON body of the response) or the error it throws
Returned == [ok |-> TRUE, error |-> NoError, value |-> "body"]

Thrown(e) == [ok |-> FALSE, error |-> e, value |-> "none"]

handleResponse(response) ==
    IF responseOk(response.status)
    THEN IF response.json THEN Returned ELSE Thrown(JsonError)
    ELSE IF response.status = 401 THEN Thrown(UnauthorizedError)
    ELSE IF response.status = 429 THEN Thrown(TooManyRequestsError)
    ELSE IF response.status \in {503, 504} THEN Thrown(UnavailableError)
    ELSE Thrown(StatusError)

\* get and post hand every response to handleResponse; patch returns {} on
\* 204 and delete returns on 204 and on every 2xx before that
style(verb) == IF verb = "POST" THEN "GET" ELSE verb

\* the part of get/post/patch/delete that follows fetch(); verb is a style
request(verb, outcome) ==
    IF outcome.kind = "throw" THEN Thrown(ThrownError(outcome.name))
    ELSE IF verb = "PATCH" /\ outcome.status = 204
         THEN [Returned EXCEPT !.value = "emptyObject"]
    ELSE IF verb = "DELETE" /\ (outcome.status = 204 \/ responseOk(outcome.status))
         THEN [Returned EXCEPT !.value = "undefined"]
    ELSE handleResponse(outcome)

\* a classification that also retries the upstream's own rate limit
isTransientErrorRetries429(error) ==
    IF error.class = "GraphAPIError"
    THEN \/ includes(error.message, <<"temporarily", "unavailable">>)
         \/ includes(error.message, <<"Rate", "limit", "exceeded">>)
    ELSE IF error.class = "AuthenticationError" THEN FALSE
    ELSE error.name \in {"FetchError", "NetworkError"}

isTransientError(error) ==
    IF error.class = "GraphAPIError"
    THEN includes(error.message, <<"temporarily", "unavailable">>)
    ELSE IF error.class = "AuthenticationError" THEN FALSE
    ELSE error.name \in {"FetchError", "NetworkError"}

Pow2(n) == IF n = 0 THEN 1 ELSE IF n = 1 THEN 2 ELSE IF n = 2 THEN 4
           ELSE IF n = 3 THEN 8 ELSE 16

\* a backoff whose jitter is 0-100% of the delay
totalDelayFullJitter(cfg, attempt, r) ==
    LET delayMs == cfg.baseRetryDelayMs * Pow2(attempt)
    IN Floor(RandomSteps * delayMs + r * delayMs, RandomSteps)

\* Math.floor(delayMs + Math.random() * 0.3 * delayMs), Math.random() being
\* r / RandomSteps
totalDelay(cfg, attempt, r) ==
    LET delayMs == cfg.baseRetryDelayMs * Pow2(attempt)
    IN Floor(10 * RandomSteps * delayMs + 3 * r * delayMs, 10 * RandomSteps)

\* a retry loop that allows one attempt too many
executeWithRetryOneMore(result, attempt, cfg) ==
    IF result.ok THEN "return"
    ELSE IF ~isTransientError(result.error) THEN "throw"
    ELSE IF attempt > cfg.maxRetries THEN "throw"
    ELSE "sleep"

\* the catch block of executeWithRetry: what follows the settling of fn()
executeWithRetry(result, attempt, cfg) ==
    IF result.ok THEN "return"
    ELSE IF ~isTransientError(result.error) THEN "throw"
    ELSE IF attempt >= cfg.maxRetries THEN "throw"
    ELSE "sleep"

\* a call in flight: the style of its verb, the attempt argument of executeWithRetry,
\* the invocations of fn and of fetch() so far, and the instant the backoff
\* timer fires
NoCall ==
    [verb |-> "GET", attempt |-> 0, tries |-> 0, fetches |-> 0, wakeAt |-> 0]

----------------------------------------------------------------------------
(* Configurations *)

DefaultConfig ==
    [maxRequestsPerMinute |-> DefaultMaxRequestsPerMinute,
     burstAllowance |-> Undefined,
     failureThreshold |-> DefaultFailureThreshold,
     successThreshold |-> DefaultSuccessThreshold,
     timeout |-> DefaultTimeout,
     maxRetries |-> DefaultMaxRetries,
     baseRetryDelayMs |-> DefaultBaseRetryDelayMs,
     transport |-> "any"]

\* requests per minute that refill 1/3, 1/2 or 1 token per second
RateChoices == {20, 30, 60}

\* the advances of time between two operations, in ms
Steps == {500, 1000, 3000}

ThresholdChoices == 1..MaxThreshold

\* breaker timeouts, in ms
TimeoutChoices == {1000, 2000}

BurstChoices == (0..MaxBurst) \cup {Undefined}

\* history of the current instant (no time has passed since): first = the
\* tokens the first checkLimit() found, k = the whole tokens among them,
\* n = the checkLimit() calls made, admitted = those that returned;
\* failStreak = failures of the wrapped function recorded since the last
\* success or reset, succStreak = successes recorded in HALF_OPEN since it
\* was entered or since the last failure
NoHist ==
    [first |-> 0, k |-> 0, n |-> 0, admitted |-> 0,
     failStreak |-> 0, succStreak |-> 0]

NewInstant(h) == [h EXCEPT !.first = 0, !.k = 0, !.n = 0, !.admitted = 0]

NoLast == [op |-> "none"]

----------------------------------------------------------------------------
(* The rate limiter on its own: checkLimit(), getAvailableTokens() and     *)
(* reset() in any order, with time passing in between.                     *)

InitRL ==
    /\ now = 0
    /\ \E m \in RateChoices, b \in BurstChoices :
         config = [DefaultConfig EXCEPT !.maxRequestsPerMinute = m,
                                        !.burstAllowance = b]
    /\ rateLimiter = RateLimiterNew(config, now)
    /\ circuitBreaker = CircuitBreakerNew
    /\ pc = [c \in Calls |-> "idle"]
    /\ call = [c \in Calls |-> NoCall]
    /\ last = NoLast
    /\ hist = NoHist

\* time passes: any advance, long idle periods included
Tick ==
    /\ \E d \in Steps :
         /\ now + d <= MaxNow
         /\ now' = now + d
    /\ last' = [op |-> "tick"]
    /\ hist' = NewInstant(hist)
    /\ UNCHANGED <<config, rateLimiter, circuitBreaker, pc, call>>

\* await limiter.checkLimit(): runs to completion synchronously
CheckLimit ==
    /\ hist.n < MaxChecks
    /\ LET avail == refillTokens(rateLimiter, config, now).tokens
           r == checkLimit(rateLimiter, config, now)
       IN /\ rateLimiter' = r.rl
          /\ last' = [op |-> "checkLimit", ok |-> r.ok,
                      waitTimeMs |-> r.waitTimeMs, avail |-> avail]
          /\ hist' = [hist EXCEPT
                        !.first = IF hist.n = 0 THEN avail ELSE @,
                        !.k = IF hist.n = 0 THEN Floor(avail, TokenUnit) ELSE @,
                        !.n = @ + 1,
                        !.admitted = @ + (IF r.ok THEN 1 ELSE 0)]
    /\ UNCHANGED <<now, config, circuitBreaker, pc, call>>

GetAvailableTokens ==
    /\ LET r == getAvailableTokens(rateLimiter, config, now)
       IN /\ rateLimiter' = r.rl
          /\ last' = [op |-> "getAvailableTokens", value |-> r.value]
    /\ UNCHANGED <<now, config, circuitBreaker, pc, call, hist>>

ResetLimiter ==
    /\ rateLimiter' = RateLimiterReset(rateLimiter, config, now)
    /\ last' = [op |-> "reset"]
    /\ hist' = NewInstant(hist)
    /\ UNCHANGED <<now, config, circuitBreaker, pc, call>>

NextRL ==
    \/ Tick
    \/ CheckLimit
    \/ GetAvailableTokens
    \/ ResetLimiter

SpecRL == InitRL /\ [][NextRL]_vars

----------------------------------------------------------------------------
(* The circuit breaker on its own: execute(fn) calls whose fn settles at   *)
(* any later moment, so that several calls are in flight at once, reset()  *)
(* and time passing.                                                       *)

InitCB ==
    /\ now = 0
    /\ \E f \in ThresholdChoices, s \in ThresholdChoices, t \in TimeoutChoices :
         config = [DefaultConfig EXCEPT !.failureThreshold = f,
                                        !.successThreshold = s,
                                        !.timeout = t]
    /\ rateLimiter = RateLimiterNew(config, now)
    /\ circuitBreaker = CircuitBreakerNew
    /\ pc = [c \in Calls |-> "idle"]
    /\ call = [c \in Calls |-> NoCall]
    /\ last = NoLast
    /\ hist = NoHist

\* a breaker that lets a single trial call through while HALF_OPEN
ExecuteSingleProbe(c) ==
    /\ pc[c] = "idle"
    /\ LET r == execute(circuitBreaker, config, now)
           probing == /\ circuitBreaker.state = "HALF_OPEN"
                      /\ \E other \in Calls \ {c} : pc[other] = "running"
           invoke == r.invoke /\ ~probing
       IN /\ circuitBreaker' = r.cb
          /\ pc' = [pc EXCEPT ![c] = IF invoke THEN "running" ELSE "idle"]
          /\ last' = [op |-> "execute", c |-> c,
                      outcome |-> IF invoke THEN "invoked" ELSE "circuit_open"]
          /\ hist' = IF circuitBreaker.state = "OPEN" /\ r.cb.state = "HALF_OPEN"
                     THEN [hist EXCEPT !.succStreak = 0]
                     ELSE hist
    /\ UNCHANGED <<now, config, rateLimiter, call>>

\* breaker.execute(fn): the state check and, unless the circuit is open,
\* the call of fn, which then runs until it settles
Execute(c) ==
    /\ pc[c] = "idle"
    /\ LET r == execute(circuitBreaker, config, now)
       IN /\ circuitBreaker' = r.cb
          /\ pc' = [pc EXCEPT ![c] = IF r.invoke THEN "running" ELSE "idle"]
          /\ last' = [op |-> "execute", c |-> c,
                      outcome |-> IF r.invoke THEN "invoked" ELSE "circuit_open"]
          /\ hist' = IF circuitBreaker.state = "OPEN" /\ r.cb.state = "HALF_OPEN"
                     THEN [hist EXCEPT !.succStreak = 0]
                     ELSE hist
    /\ UNCHANGED <<now, config, rateLimiter, call>>

\* fn resolved: onSuccess(), the result is returned
FnSucceeds(c) ==
    /\ pc[c] = "running"
    /\ circuitBreaker' = onSuccess(circuitBreaker, config)
    /\ pc' = [pc EXCEPT ![c] = "idle"]
    /\ last' = [op |-> "success", c |-> c]
    /\ hist' = [hist EXCEPT !.failStreak = 0,
                            !.succStreak = IF circuitBreaker.state = "HALF_OPEN"
                                           THEN @ + 1 ELSE 0]
    /\ UNCHANGED <<now, config, rateLimiter, call>>

\* a failure handler whose update of the counters is lost when another
\* call is in flight: the counters are written back as they were read
FnFailsLostUpdate(c) ==
    /\ pc[c] = "running"
    /\ circuitBreaker' =
         IF \E other \in Calls \ {c} : pc[other] = "running"
         THEN circuitBreaker
         ELSE onFailure(circuitBreaker, config, now)
    /\ pc' = [pc EXCEPT ![c] = "idle"]
    /\ last' = [op |-> "failure", c |-> c]
    /\ hist' = [hist EXCEPT !.failStreak = @ + 1, !.succStreak = 0]
    /\ UNCHANGED <<now, config, rateLimiter, call>>

\* fn rejected: onFailure(), the error is rethrown
FnFails(c) ==
    /\ pc[c] = "running"
    /\ circuitBreaker' = onFailure(circuitBreaker, config, now)
    /\ pc' = [pc EXCEPT ![c] = "idle"]
    /\ last' = [op |-> "failure", c |-> c]
    /\ hist' = [hist EXCEPT !.failStreak = @ + 1, !.succStreak = 0]
    /\ UNCHANGED <<now, config, rateLimiter, call>>

ResetBreaker ==
    /\ circuitBreaker' = CircuitBreakerReset(circuitBreaker)
    /\ last' = [op |-> "reset"]
    /\ hist' = [hist EXCEPT !.failStreak = 0, !.succStreak = 0]
    /\ UNCHANGED <<now, config, rateLimiter, pc, call>>

\* a getState() that performs the transition it reports
GetStateTransitions ==
    /\ last' = [op |-> "getState", value |-> getState(circuitBreaker, now)]
    /\ circuitBreaker' =
         IF circuitBreaker.state = "OPEN" /\ now >= circuitBreaker.nextAttemptTime
         THEN [circuitBreaker EXCEPT !.state = "HALF_OPEN", !.successCount = 0]
         ELSE circuitBreaker
    /\ UNCHANGED <<now, config, rateLimiter, pc, call, hist>>

\* breaker.getState()
GetState ==
    /\ last' = [op |-> "getState", value |-> getState(circuitBreaker, now)]
    /\ UNCHANGED <<now, config, rateLimiter, circuitBreaker, pc, call, hist>>

NextCB ==
    \/ Tick
    \/ GetState
    \/ \E c \in Calls : Execute(c)
    \/ \E c \in Calls : FnSucceeds(c)
    \/ \E c \in Calls : FnFails(c)
    \/ ResetBreaker

SpecCB == InitCB /\ [][NextCB]_vars

\* the breaker under every threshold the constructor accepts, zero
\* included: the constructor stores the configuration as it is given
AnyThresholdChoices == 0..MaxThreshold

InitCBAny ==
    /\ now = 0
    /\ \E f \in AnyThresholdChoices, s \in AnyThresholdChoices,
          t \in TimeoutChoices :
         config = [DefaultConfig EXCEPT !.failureThreshold = f,
                                        !.successThreshold = s,
                                        !.timeout = t]
    /\ rateLimiter = RateLimiterNew(config, now)
    /\ circuitBreaker = CircuitBreakerNew
    /\ pc = [c \in Calls |-> "idle"]
    /\ call = [c \in Calls |-> NoCall]
    /\ last = NoLast
    /\ hist = NoHist

SpecCBAny == InitCBAny /\ [][NextCB]_vars

----------------------------------------------------------------------------
(* The client: concurrent get/post/patch/delete calls, each going through  *)
(* the limiter, the breaker and the retry loop, with the token provider    *)
(* and the transport answering in any way, reset() and time passing.       *)

ClientCalls == 1..NumClientCalls

\* the advances of time between two steps of the client, in ms
ClientSteps == {1000}

\* burstAllowance, failureThreshold, successThreshold, maxRetries
ClientConfigs ==
    {<<0, 1, 1, 0>>, <<1, 1, 1, 0>>, <<2, 2, 2, 1>>, <<2, 2, 1, MaxRetryCap>>,
     <<DefaultFailureThreshold + 1, DefaultFailureThreshold, 1, 1>>}

\* the transport and token provider the client is wired to: one that may
\* answer anything, or an endpoint that answers 503 to every request
Transports == {"any", "always503"}

Init ==
    /\ now = 0
    /\ \E k \in ClientConfigs, t \in Transports :
         config = [DefaultConfig EXCEPT !.burstAllowance = k[1],
                                        !.failureThreshold = k[2],
                                        !.successThreshold = k[3],
                                        !.timeout = 1000,
                                        !.maxRetries = k[4],
                                        !.baseRetryDelayMs = 500,
                                        !.transport = t]
    /\ rateLimiter = RateLimiterNew(config, now)
    /\ circuitBreaker = CircuitBreakerNew
    /\ pc = [c \in Calls |-> "idle"]
    /\ call = [c \in Calls |-> NoCall]
    /\ last = NoLast
    /\ hist = NoHist

ClientTick ==
    /\ \E d \in ClientSteps :
         /\ now + d <= MaxClientNow
         /\ now' = now + d
    /\ last' = [op |-> "tick"]
    /\ UNCHANGED <<config, rateLimiter, circuitBreaker, pc, call, hist>>

\* what a finished call leaves behind for its caller
Finished(op, c, cl, e, seen) ==
    [op |-> op, c |-> c, error |-> e, fetches |-> cl.fetches, seen |-> seen]

\* a verb method that goes on after the limiter has rejected the call
ClientCallIgnoresLimiter(c, verb) ==
    /\ pc[c] = "idle"
    /\ LET r == checkLimit(rateLimiter, config, now)
       IN /\ rateLimiter' = r.rl
          /\ pc' = [pc EXCEPT ![c] = "admitted"]
          /\ call' = [call EXCEPT ![c] = [NoCall EXCEPT !.verb = style(verb)]]
          /\ last' = IF r.ok THEN [op |-> "call", c |-> c, ok |-> TRUE]
                     ELSE [Finished("call", c, NoCall, RateLimitError, NoneSeen)
                             EXCEPT !.op = "limited"]
    /\ UNCHANGED <<now, config, circuitBreaker, hist>>

\* get/post/patch/delete up to the first await: rateLimiter.checkLimit()
ClientCall(c, verb) ==
    /\ pc[c] = "idle"
    /\ LET r == checkLimit(rateLimiter, config, now)
       IN /\ rateLimiter' = r.rl
          /\ pc' = [pc EXCEPT ![c] = IF r.ok THEN "admitted" ELSE "idle"]
          /\ call' = [call EXCEPT ![c] =
                IF r.ok THEN [NoCall EXCEPT !.verb = style(verb)] ELSE NoCall]
          /\ last' = IF r.ok THEN [op |-> "call", c |-> c, ok |-> TRUE]
                     ELSE Finished("limited", c, NoCall, RateLimitError, NoneSeen)
    /\ UNCHANGED <<now, config, circuitBreaker, hist>>

\* a client that hands the circuit-open error to the retry loop
BreakerEnterRetries(c) ==
    /\ pc[c] = "admitted"
    /\ LET r == execute(circuitBreaker, config, now)
           again == ~r.invoke /\ call[c].attempt < config.maxRetries
       IN /\ circuitBreaker' = r.cb
          /\ pc' = [pc EXCEPT ![c] = IF r.invoke THEN "token"
                                     ELSE IF again THEN "sleep" ELSE "idle"]
          /\ call' = [call EXCEPT ![c] =
                IF r.invoke THEN [@ EXCEPT !.tries = 1]
                ELSE IF again
                     THEN [@ EXCEPT !.wakeAt = now + totalDelay(config, 0, 0)]
                ELSE NoCall]
          /\ last' = IF r.invoke THEN [op |-> "execute", c |-> c]
                     ELSE IF again
                          THEN Finished("retry", c, call[c], CircuitOpenError,
                                        NoneSeen)
                     ELSE Finished("open", c, call[c], CircuitOpenError, NoneSeen)
          /\ hist' = IF circuitBreaker.state = "OPEN" /\ r.cb.state = "HALF_OPEN"
                     THEN [hist EXCEPT !.succStreak = 0]
                     ELSE hist
    /\ UNCHANGED <<now, config, rateLimiter>>

\* buildUrl and circuitBreaker.execute(...): the state check and, unless the
\* circuit is open, executeWithRetry(fn, 0) up to the first await of fn,
\* tokenRefresher.getValidAccessToken()
BreakerEnter(c) ==
    /\ pc[c] = "admitted"
    /\ LET r == execute(circuitBreaker, config, now)
       IN /\ circuitBreaker' = r.cb
          /\ pc' = [pc EXCEPT ![c] = IF r.invoke THEN "token" ELSE "idle"]
          /\ call' = [call EXCEPT ![c] =
                IF r.invoke THEN [@ EXCEPT !.tries = 1] ELSE NoCall]
          /\ last' = IF r.invoke THEN [op |-> "execute", c |-> c]
                     ELSE Finished("open", c, call[c], CircuitOpenError, NoneSeen)
          /\ hist' = IF circuitBreaker.state = "OPEN" /\ r.cb.state = "HALF_OPEN"
                     THEN [hist EXCEPT !.succStreak = 0]
                     ELSE hist
    /\ UNCHANGED <<now, config, rateLimiter>>

\* the token provider returned a token: fetch() is called
TokenResolves(c) ==
    /\ pc[c] = "token"
    /\ pc' = [pc EXCEPT ![c] = "fetch"]
    /\ call' = [call EXCEPT ![c].fetches = @ + 1]
    /\ last' = [op |-> "token", c |-> c]
    /\ UNCHANGED <<now, config, rateLimiter, circuitBreaker, hist>>

\* a client whose breaker wraps each attempt instead of the retry loop:
\* every failed attempt is recorded as a failure
AfterAttemptRecordsEach(c, result, seen) ==
    LET next == executeWithRetry(result, call[c].attempt, config)
    IN /\ \/ /\ next = "return"
             /\ circuitBreaker' = onSuccess(circuitBreaker, config)
             /\ pc' = [pc EXCEPT ![c] = "idle"]
             /\ call' = [call EXCEPT ![c] = NoCall]
             /\ last' = Finished("success", c, call[c], NoError, seen)
             /\ hist' = [hist EXCEPT
                           !.failStreak = 0,
                           !.succStreak = IF circuitBreaker.state = "HALF_OPEN"
                                          THEN @ + 1 ELSE 0]
          \/ /\ next = "throw"
             /\ circuitBreaker' = onFailure(circuitBreaker, config, now)
             /\ pc' = [pc EXCEPT ![c] = "idle"]
             /\ call' = [call EXCEPT ![c] = NoCall]
             /\ last' = Finished("failure", c, call[c], result.error, seen)
             /\ hist' = [hist EXCEPT !.failStreak = @ + 1, !.succStreak = 0]
          \/ /\ next = "sleep"
             /\ circuitBreaker' = onFailure(circuitBreaker, config, now)
             /\ pc' = [pc EXCEPT ![c] = "sleep"]
             /\ \E r \in 0..(RandomSteps - 1) :
                  call' = [call EXCEPT ![c].wakeAt =
                              now + totalDelay(config, call[c].attempt, r)]
             /\ last' = Finished("retry", c, call[c], result.error, seen)
             /\ UNCHANGED hist
       /\ UNCHANGED <<now, config, rateLimiter>>

\* fn() of executeWithRetry settled with result: sleep the backoff delay
\* before the next attempt, or return or rethrow to circuitBreaker.execute,
\* which calls onSuccess() or onFailure().  The continuations between the
\* settling of fn() and onSuccess()/onFailure() touch no shared state, so
\* they are part of this step.
AfterAttempt(c, result, seen) ==
    LET next == executeWithRetry(result, call[c].attempt, config)
    IN /\ \/ /\ next = "return"
             /\ circuitBreaker' = onSuccess(circuitBreaker, config)
             /\ pc' = [pc EXCEPT ![c] = "idle"]
             /\ call' = [call EXCEPT ![c] = NoCall]
             /\ last' = Finished("success", c, call[c], NoError, seen)
             /\ hist' = [hist EXCEPT
                           !.failStreak = 0,
                           !.succStreak = IF circuitBreaker.state = "HALF_OPEN"
                                          THEN @ + 1 ELSE 0]
          \/ /\ next = "throw"
             /\ circuitBreaker' = onFailure(circuitBreaker, config, now)
             /\ pc' = [pc EXCEPT ![c] = "idle"]
             /\ call' = [call EXCEPT ![c] = NoCall]
             /\ last' = Finished("failure", c, call[c], result.error, seen)
             /\ hist' = [hist EXCEPT !.failStreak = @ + 1, !.succStreak = 0]
          \/ /\ next = "sleep"
             /\ pc' = [pc EXCEPT ![c] = "sleep"]
             /\ \E r \in 0..(RandomSteps - 1) :
                  call' = [call EXCEPT ![c].wakeAt =
                              now + totalDelay(config, call[c].attempt, r)]
             /\ last' = Finished("retry", c, call[c], result.error, seen)
             /\ UNCHANGED <<circuitBreaker, hist>>
       /\ UNCHANGED <<now, config, rateLimiter>>

\* a client that asks the token provider outside the breaker: its failure
\* ends the call without being recorded
TokenRejectsUncounted(c, e) ==
    /\ pc[c] = "token"
    /\ config.transport = "any"
    /\ pc' = [pc EXCEPT ![c] = "idle"]
    /\ call' = [call EXCEPT ![c] = NoCall]
    /\ last' = Finished("failure", c, call[c], e, TokenSeen(e))
    /\ UNCHANGED <<now, config, rateLimiter, circuitBreaker, hist>>

\* the token provider threw
TokenRejects(c, e) ==
    /\ pc[c] = "token"
    /\ config.transport = "any"
    /\ AfterAttempt(c, Thrown(e), TokenSeen(e))

\* fetch() settled and the response was interpreted
FetchSettles(c, outcome) ==
    /\ pc[c] = "fetch"
    /\ config.transport = "always503" => outcome = Response(503)
    /\ AfterAttempt(c, request(call[c].verb, outcome), outcome)

\* a retry that goes through the rate limiter again
WakeChecksLimit(c) ==
    /\ pc[c] = "sleep"
    /\ now >= call[c].wakeAt
    /\ pc' = [pc EXCEPT ![c] = "token"]
    /\ call' = [call EXCEPT ![c].attempt = @ + 1, ![c].tries = @ + 1,
                            ![c].wakeAt = 0]
    /\ last' = [op |-> "wake", c |-> c]
    /\ rateLimiter' = checkLimit(rateLimiter, config, now).rl
    /\ UNCHANGED <<now, config, circuitBreaker, hist>>

\* the backoff timer fired: executeWithRetry(fn, attempt + 1)
Wake(c) ==
    /\ pc[c] = "sleep"
    /\ now >= call[c].wakeAt
    /\ pc' = [pc EXCEPT ![c] = "token"]
    /\ call' = [call EXCEPT ![c].attempt = @ + 1, ![c].tries = @ + 1,
                            ![c].wakeAt = 0]
    /\ last' = [op |-> "wake", c |-> c]
    /\ UNCHANGED <<now, config, rateLimiter, circuitBreaker, hist>>

\* client.reset()
ClientReset ==
    /\ rateLimiter' = RateLimiterReset(rateLimiter, config, now)
    /\ circuitBreaker' = CircuitBreakerReset(circuitBreaker)
    /\ last' = [op |-> "reset", tokens |-> rateLimiter.tokens,
                state |-> circuitBreaker.state]
    /\ hist' = [hist EXCEPT !.failStreak = 0, !.succStreak = 0]
    /\ UNCHANGED <<now, config, pc, call>>

Next ==
    \/ ClientTick
    \/ \E c \in ClientCalls, verb \in Verbs : ClientCall(c, verb)
    \/ \E c \in ClientCalls : BreakerEnter(c)
    \/ \E c \in ClientCalls : TokenResolves(c)
    \/ \E c \in ClientCalls, e \in TokenErrors : TokenRejects(c, e)
    \/ \E c \in ClientCalls, outcome \in FetchOutcomes : FetchSettles(c, outcome)
    \/ \E c \in ClientCalls : Wake(c)
    \/ ClientReset

Spec == Init /\ [][Next]_vars

----------------------------------------------------------------------------
(* Claims about the rate limiter *)

\* C1: after every operation (checkLimit, getAvailableTokens, reset) and
\* whatever time has passed, 0 <= tokens <= capacity, capacity being
\* burstAllowance, which defaults to maxRequestsPerMinute.
C1_TokensWithinCapacity ==
    /\ 0 <= rateLimiter.tokens
    /\ rateLimiter.tokens <= burstAllowance(config) * TokenUnit
    /\ last.op = "getAvailableTokens" =>
         /\ 0 <= last.value
         /\ last.value <= burstAllowance(config) * TokenUnit

\* a refill after an idle period longer than the bucket needs to fill up
C1_Witness ==
    /\ last.op = "getAvailableTokens"
    /\ now >= 3000
    /\ hist.n = 0
    /\ rateLimiter.lastRefillTime = now
    /\ rateLimiter.tokens = capacity(config)
    /\ capacity(config) > 0

\* C2: checkLimit() admits exactly when a whole token is there after the
\* refill, takes exactly one token when it admits and none when it rejects;
\* of the n checks made at one instant on a bucket of k whole tokens, in any
\* order and with getAvailableTokens() calls in between, exactly min(n, k)
\* are admitted.
C2_AdmitsExactlyWholeTokens ==
    /\ last.op = "checkLimit" =>
         /\ last.ok <=> last.avail >= TokenUnit
         /\ rateLimiter.tokens = last.avail - (IF last.ok THEN TokenUnit ELSE 0)
         /\ rateLimiter.lastRefillTime <= now
    /\ hist.admitted = Min(hist.n, hist.k)

\* two checks at the same instant on a bucket holding exactly one token:
\* the first was admitted, the second has just been rejected
C2_Witness ==
    /\ last.op = "checkLimit"
    /\ ~last.ok
    /\ hist.first = TokenUnit
    /\ hist.n = 2
    /\ hist.admitted = 1

----------------------------------------------------------------------------
(* Claims about the circuit breaker *)

\* C3: from CLOSED the breaker opens exactly when failureThreshold failures
\* have been recorded with no success in between: fewer leave it CLOSED,
\* the failureThreshold-th sets OPEN with nextAttemptTime = now + timeout,
\* and a success while CLOSED puts the failure counter back to 0.
C3_OpensExactlyAtThreshold ==
    [][circuitBreaker.state = "CLOSED" =>
         /\ circuitBreaker.failureCount = hist.failStreak
         /\ hist.failStreak < config.failureThreshold
         /\ circuitBreaker'.state \in {"CLOSED", "OPEN"}
         /\ circuitBreaker'.state = "OPEN" <=>
              (last'.op = "failure" /\ hist'.failStreak = config.failureThreshold)
         /\ circuitBreaker'.state = "OPEN" =>
              circuitBreaker'.nextAttemptTime = now + config.timeout
         /\ last'.op = "failure" =>
              circuitBreaker'.failureCount = circuitBreaker.failureCount + 1
         /\ last'.op = "success" =>
              circuitBreaker'.failureCount = 0]_vars

\* the third failure in a row has just opened a breaker of threshold 3,
\* some time after construction
C3_Witness ==
    /\ config.failureThreshold = 3
    /\ last.op = "failure"
    /\ hist.failStreak = 3
    /\ circuitBreaker.state = "OPEN"
    /\ circuitBreaker.nextAttemptTime = now + config.timeout
    /\ now > 0

\* C4: while the stored state is OPEN and now < nextAttemptTime, execute()
\* throws the circuit-open error without calling fn and changes neither the
\* state, the counters nor nextAttemptTime.
C4_OpenFailsFast ==
    [][(/\ circuitBreaker.state = "OPEN"
        /\ now < circuitBreaker.nextAttemptTime
        /\ last'.op = "execute") =>
         /\ last'.outcome = "circuit_open"
         /\ pc' = pc
         /\ circuitBreaker' = circuitBreaker]_vars

\* an execute() has just been turned away by the open circuit
C4_Witness ==
    /\ circuitBreaker.state = "OPEN"
    /\ now < circuitBreaker.nextAttemptTime
    /\ last.op = "execute"
    /\ last.outcome = "circuit_open"

\* C5: a failure of fn while the breaker is HALF_OPEN puts it back to OPEN
\* with nextAttemptTime = now + timeout, whatever failureThreshold is and
\* however many successes came before.
C5_HalfOpenFailureReopens ==
    [][(circuitBreaker.state = "HALF_OPEN" /\ last'.op = "failure") =>
         /\ circuitBreaker'.state = "OPEN"
         /\ circuitBreaker'.nextAttemptTime = now + config.timeout]_vars

\* C6: once the timeout has elapsed the next execute() on an OPEN breaker
\* sets HALF_OPEN with the success counter 0 and calls fn in that same call;
\* the successThreshold-th success in a row then sets CLOSED with both
\* counters 0, and fewer successes leave it HALF_OPEN.
C6_HalfOpenRecovery ==
    [][/\ (/\ circuitBreaker.state = "OPEN"
            /\ now >= circuitBreaker.nextAttemptTime
            /\ last'.op = "execute") =>
             /\ circuitBreaker'.state = "HALF_OPEN"
             /\ circuitBreaker'.successCount = 0
             /\ last'.outcome = "invoked"
             /\ pc'[last'.c] = "running"
       /\ (circuitBreaker.state = "HALF_OPEN" /\ last'.op = "success") =>
             IF hist'.succStreak >= config.successThreshold
             THEN /\ circuitBreaker'.state = "CLOSED"
                  /\ circuitBreaker'.failureCount = 0
                  /\ circuitBreaker'.successCount = 0
             ELSE /\ circuitBreaker'.state = "HALF_OPEN"
                  /\ circuitBreaker'.successCount = hist'.succStreak]_vars

\* the second success in a row has just closed a half-open breaker of
\* success threshold 2
C6_Witness ==
    /\ config.successThreshold = 2
    /\ last.op = "success"
    /\ hist.succStreak = 2
    /\ circuitBreaker.state = "CLOSED"
    /\ circuitBreaker.failureCount = 0
    /\ circuitBreaker.successCount = 0

----------------------------------------------------------------------------
(* Claims about the client *)

\* C7: when the rate limiter rejects a verb call, nothing downstream is
\* attempted: the call ends at once with the RateLimitError, no token is
\* asked for, no request is sent, nothing is retried, and the circuit
\* breaker is left as it was.
C7_LimiterRejectionHasNoEffect ==
    [][/\ last'.op = "limited" =>
            /\ ~checkLimit(rateLimiter, config, now).ok
            /\ last'.error = RateLimitError
            /\ last'.fetches = 0
            /\ circuitBreaker' = circuitBreaker
            /\ pc' = pc
            /\ call' = call
            /\ pc'[last'.c] = "idle"
       /\ last'.op = "call" => checkLimit(rateLimiter, config, now).ok]_vars

\* a call has just been rejected by the limiter while the breaker was
\* counting failures
C7_Witness ==
    /\ last.op = "limited"
    /\ rateLimiter.tokens < TokenUnit
    /\ circuitBreaker.failureCount > 0
    /\ pc[last.c] = "idle"

\* the progress of a call in flight
Rank(c) ==
    IF pc[c] = "admitted" THEN 0
    ELSE IF pc[c] = "token" THEN 1 + 3 * call[c].attempt
    ELSE IF pc[c] = "fetch" THEN 2 + 3 * call[c].attempt
    ELSE IF pc[c] = "sleep" THEN 3 + 3 * call[c].attempt
    ELSE 0

\* C8: a call makes at most maxRetries + 1 transport attempts whatever the
\* transport answers, and every step of a call brings it nearer to its end;
\* against an endpoint that always answers 503 it ends after exactly
\* maxRetries + 1 attempts with the GraphAPIError of the last one.
C8_RetriesTerminate ==
    /\ [](/\ \A c \in ClientCalls :
               /\ call[c].attempt <= config.maxRetries
               /\ call[c].tries <= config.maxRetries + 1
               /\ call[c].fetches <= config.maxRetries + 1
               /\ Rank(c) <= 3 * config.maxRetries + 3
          /\ last.op \in {"success", "failure"} =>
               last.fetches <= config.maxRetries + 1
          /\ (config.transport = "always503"
                /\ last.op \in {"success", "failure"}) =>
               /\ last.op = "failure"
               /\ last.fetches = config.maxRetries + 1
               /\ last.error = UnavailableError)
    /\ [][\A c \in ClientCalls :
            pc[c] # "idle" =>
               \/ pc'[c] = pc[c] /\ call'[c] = call[c]
               \/ pc'[c] = "idle"
               \/ Rank(c)' > Rank(c)]_vars

\* four requests, all answered 503, and the call has just failed
C8_Witness ==
    /\ config.transport = "always503"
    /\ config.maxRetries = 3
    /\ last.op = "failure"
    /\ last.fetches = 4
    /\ last.error = UnavailableError

\* the error that belongs to a failure that is never retried
NonRetryable(seen) ==
    \/ seen.kind = "token"
    \/ seen.kind = "response" /\ seen.status \in {401, 429, 500}

ErrorOf(seen) ==
    IF seen.kind = "token"
    THEN IF seen.name = "AuthenticationError" THEN NoTokensError
         ELSE TokenStorageError
    ELSE IF seen.status = 401 THEN UnauthorizedError
    ELSE IF seen.status = 429 THEN TooManyRequestsError
    ELSE StatusError

\* C9: an attempt is followed by a retry only if it failed with 503 or 504
\* or with a FetchError or NetworkError; a 401, a failure of the token
\* provider, a 429 and any other non-2xx status end the call with the
\* matching error and no further attempt, so after exactly one attempt when
\* it was the first.
C9_OnlyTransientRetried ==
    [][last'.op \in {"retry", "success", "failure"} =>
         /\ last'.op = "retry" =>
              \/ last'.seen.kind = "response" /\ last'.seen.status \in {503, 504}
              \/ last'.seen.kind = "throw"
                   /\ last'.seen.name \in {"FetchError", "NetworkError"}
         /\ NonRetryable(last'.seen) =>
              /\ last'.op = "failure"
              /\ last'.error = ErrorOf(last'.seen)
              /\ pc'[last'.c] = "idle"
              /\ last'.fetches = call[last'.c].fetches
              /\ call[last'.c].tries = call[last'.c].attempt + 1
              /\ call[last'.c].attempt = 0 => last'.fetches <= 1]_vars

\* a first attempt answered 401 has just ended the call
C9_Witness ==
    /\ last.op = "failure"
    /\ last.seen.kind = "response"
    /\ last.seen.status = 401
    /\ last.fetches = 1
    /\ last.error = UnauthorizedError
    /\ config.maxRetries > 0

\* C10 as stated: the circuit-open GraphAPIError is retried by the client up
\* to the retry cap before it reaches the caller.
C10_CircuitOpenRetried ==
    [][last'.op = "open" =>
         call[last'.c].attempt = config.maxRetries]_vars

\* C10: the circuit-open GraphAPIError carries a message that
\* isTransientError would classify as transient, but it is thrown outside
\* the retry loop: it reaches the caller at once, with no retry, no token
\* asked for and no request sent, and no retried error is a circuit-open one.
C10_CircuitOpenNotRetried ==
    [][/\ last'.op = "open" =>
            /\ pc[last'.c] = "admitted"
            /\ pc'[last'.c] = "idle"
            /\ call[last'.c].attempt = 0
            /\ call[last'.c].tries = 0
            /\ last'.fetches = 0
            /\ last'.error = CircuitOpenError
            /\ isTransientError(last'.error)
            /\ circuitBreaker' = circuitBreaker
       /\ last'.op = "retry" => last'.error # CircuitOpenError]_vars

\* a call has just been turned away by the open circuit of a client that
\* retries transient failures
C10_Witness ==
    /\ last.op = "open"
    /\ config.maxRetries > 0
    /\ circuitBreaker.state = "OPEN"
    /\ now < circuitBreaker.nextAttemptTime

\* the step in which call c sees a 2xx response to its latest request
SeesOk(c) ==
    /\ pc[c] = "fetch"
    /\ last'.op \in {"success", "failure", "retry"}
    /\ last'.c = c
    /\ last'.seen.kind = "response"
    /\ responseOk(last'.seen.status)

\* C11 as stated: after j transient failures, j <= maxRetries, a 2xx
\* response makes the call resolve to the parsed body of that response after
\* exactly j + 1 transport calls, the breaker recording a success and its
\* failure counter being 0.
C11_OkResolvesToParsedBody ==
    [][\A c \in ClientCalls :
         SeesOk(c) =>
            /\ last'.op = "success"
            /\ request(call[c].verb, last'.seen).value = "body"
            /\ last'.fetches = call[c].attempt + 1
            /\ circuitBreaker'.failureCount = 0]_vars

\* C11: after j transient failures, j <= maxRetries, a 2xx response ends the
\* call after exactly j + 1 transport calls.  delete resolves to nothing on
\* every 2xx and patch to an empty object on 204, without reading a body;
\* otherwise the call resolves to the parsed body when the body is JSON, and
\* every call that resolves is recorded by the breaker as one success, its
\* failure counter being 0 afterwards.  A 2xx whose body is not JSON makes
\* get, post and patch fail with the parse error, unretried, and the breaker
\* records a failure.
C11_OkEndsCall ==
    [][\A c \in ClientCalls :
         SeesOk(c) =>
            /\ call[c].attempt <= config.maxRetries
            /\ last'.fetches = call[c].attempt + 1
            /\ call[c].fetches = call[c].attempt + 1
            /\ pc'[c] = "idle"
            /\ IF call[c].verb = "DELETE"
               THEN /\ last'.op = "success"
                    /\ request(call[c].verb, last'.seen).value = "undefined"
               ELSE IF call[c].verb = "PATCH" /\ last'.seen.status = 204
               THEN /\ last'.op = "success"
                    /\ request(call[c].verb, last'.seen).value = "emptyObject"
               ELSE IF last'.seen.json
               THEN /\ last'.op = "success"
                    /\ request(call[c].verb, last'.seen).value = "body"
               ELSE /\ last'.op = "failure"
                    /\ last'.error = JsonError
            /\ last'.op = "success" =>
                 /\ circuitBreaker'.failureCount = 0
                 /\ circuitBreaker.state # "HALF_OPEN" =>
                      circuitBreaker'.state = circuitBreaker.state
                 /\ circuitBreaker.state = "HALF_OPEN" =>
                      \/ circuitBreaker'.state = "CLOSED"
                      \/ circuitBreaker'.successCount =
                           circuitBreaker.successCount + 1
            /\ last'.op = "failure" =>
                 circuitBreaker'.failureCount = circuitBreaker.failureCount + 1]_vars

\* 503, 503, 200: the call has just resolved after three requests, in a
\* client whose breaker had counted a failure before
C11_Witness ==
    /\ last.op = "success"
    /\ last.fetches = 3
    /\ last.seen.kind = "response"
    /\ last.seen.status = 200
    /\ last.seen.json
    /\ circuitBreaker.failureCount = 0
    /\ circuitBreaker.state = "CLOSED"
    /\ config.failureThreshold = 2
    /\ config.successThreshold = 1

----------------------------------------------------------------------------
(* Claims about the observers and reset() *)

\* C12: getState() reports the logical state and changes nothing: it
\* returns HALF_OPEN exactly when the stored state is OPEN with the timeout
\* elapsed or is HALF_OPEN already, and the stored state otherwise; state,
\* counters and nextAttemptTime are the same before and after the call, and
\* the stored state goes from OPEN to HALF_OPEN only in execute().
C12_GetStateIsPure ==
    [][/\ last'.op = "getState" =>
            /\ circuitBreaker' = circuitBreaker
            /\ last'.value = "HALF_OPEN" <=>
                 \/ /\ circuitBreaker.state = "OPEN"
                    /\ now >= circuitBreaker.nextAttemptTime
                 \/ circuitBreaker.state = "HALF_OPEN"
            /\ last'.value # "HALF_OPEN" => last'.value = circuitBreaker.state
       /\ (circuitBreaker.state = "OPEN" /\ circuitBreaker'.state = "HALF_OPEN")
            => last'.op = "execute"]_vars

\* getState() has just reported HALF_OPEN while the stored state is OPEN
C12_Witness ==
    /\ last.op = "getState"
    /\ last.value = "HALF_OPEN"
    /\ circuitBreaker.state = "OPEN"
    /\ now >= circuitBreaker.nextAttemptTime
    /\ circuitBreaker.failureCount > 0

\* C13 as stated: whatever the state of the client, reset() leaves the
\* limiter full and the breaker CLOSED with both counters 0, and the next
\* call is admitted by the limiter and by the breaker.
C13_ResetAdmitsNextCall ==
    [][last'.op = "reset" =>
         /\ getAvailableTokens(rateLimiter', config, now).value = capacity(config)
         /\ getState(circuitBreaker', now) = "CLOSED"
         /\ circuitBreaker'.failureCount = 0
         /\ circuitBreaker'.successCount = 0
         /\ checkLimit(rateLimiter', config, now).ok
         /\ execute(circuitBreaker', config, now).invoke]_vars

\* C13: whatever the state of the client, reset() leaves the limiter full
\* and the breaker CLOSED with both counters 0; the next call is admitted by
\* the breaker, and by the limiter if and only if the capacity is at least
\* one token.
C13_ResetRestores ==
    [][last'.op = "reset" =>
         /\ getAvailableTokens(rateLimiter', config, now).value = capacity(config)
         /\ rateLimiter'.tokens = capacity(config)
         /\ rateLimiter'.lastRefillTime = now
         /\ getState(circuitBreaker', now) = "CLOSED"
         /\ circuitBreaker'.failureCount = 0
         /\ circuitBreaker'.successCount = 0
         /\ execute(circuitBreaker', config, now).invoke
         /\ checkLimit(rateLimiter', config, now).ok
              <=> capacity(config) >= TokenUnit
         /\ pc' = pc
         /\ call' = call]_vars

\* reset() has just been called on a client whose tokens were used up and
\* whose circuit was open
C13_Witness ==
    /\ last.op = "reset"
    /\ last.tokens < TokenUnit
    /\ last.state = "OPEN"
    /\ capacity(config) >= TokenUnit
    /\ rateLimiter.tokens = capacity(config)
    /\ circuitBreaker.state = "CLOSED"

----------------------------------------------------------------------------
(* Claims about concurrent calls and about retries inside the breaker *)

\* C19: under concurrent execute() calls the update of the counters is
\* atomic per completion: no recorded failure is lost, and whenever
\* failureThreshold wrapped calls have failed, in any interleaving, with
\* no success completing in between, the breaker is OPEN immediately
\* after the last of those failures is recorded.
C19_ConcurrentFailuresTrip ==
    /\ circuitBreaker.failureCount = hist.failStreak
    /\ (last.op = "failure" /\ hist.failStreak >= config.failureThreshold) =>
           /\ circuitBreaker.state = "OPEN"
           /\ circuitBreaker.nextAttemptTime = now + config.timeout

\* three calls were in flight together in a CLOSED breaker of threshold 2
\* and all failed: no time has passed since construction, so the third
\* failure is of a call that started before the second one opened the
\* circuit
C19_Witness ==
    /\ now = 0
    /\ config.failureThreshold = 2
    /\ last.op = "failure"
    /\ hist.failStreak = 3
    /\ circuitBreaker.state = "OPEN"
    /\ \A c \in Calls : pc[c] = "idle"

\* C20: retries run inside a single breaker execution: a client call
\* changes the breaker by exactly one recorded success or one recorded
\* failure however many transport attempts it made, so a CLOSED circuit
\* stays CLOSED while fewer than failureThreshold client calls have failed
\* (each with maxRetries + 1 attempts against a failing endpoint) and is
\* OPEN after the failureThreshold-th, after which the next client call
\* fails without any transport request.
C20_OneOutcomePerClientCall ==
    [][/\ last'.op \in {"retry", "token", "wake"} =>
             circuitBreaker' = circuitBreaker
       /\ last'.op = "failure" =>
             /\ circuitBreaker'.failureCount = circuitBreaker.failureCount + 1
             /\ circuitBreaker'.failureCount = hist'.failStreak
             /\ config.transport = "always503" =>
                   last'.fetches = config.maxRetries + 1
             /\ circuitBreaker.state = "CLOSED" =>
                   circuitBreaker'.state =
                     IF hist'.failStreak >= config.failureThreshold
                     THEN "OPEN" ELSE "CLOSED"
       /\ last'.op = "success" =>
             /\ circuitBreaker'.failureCount = 0
             /\ hist'.failStreak = 0
       /\ (/\ circuitBreaker.state = "OPEN"
           /\ now < circuitBreaker.nextAttemptTime
           /\ \E c \in ClientCalls : pc[c] = "admitted" /\ pc'[c] # "admitted") =>
             /\ last'.op = "open"
             /\ last'.error = CircuitOpenError
             /\ last'.fetches = 0
             /\ circuitBreaker' = circuitBreaker]_vars

\* with failureThreshold = 5 and an endpoint that always answers 503, five
\* client calls of two attempts each have failed and the sixth has just
\* been turned away by the open circuit without a request
C20_Witness ==
    /\ config.failureThreshold = DefaultFailureThreshold
    /\ config.maxRetries = 1
    /\ config.transport = "always503"
    /\ hist.failStreak = DefaultFailureThreshold
    /\ circuitBreaker.failureCount = DefaultFailureThreshold
    /\ circuitBreaker.state = "OPEN"
    /\ last.op = "open"
    /\ last.fetches = 0

----------------------------------------------------------------------------
(* Validators.  A string is a sequence of characters, a caller-supplied    *)
(* value is a record [type, chars]: the validators are handed whatever the *)
(* caller sent, a string or not.                                           *)

LowerLetters ==
    {"a", "b", "c", "d", "e", "f", "g", "h", "i", "j", "k", "l", "m", "n",
    "o", "p", "q", "r", "s", "t", "u", "v", "w", "x", "y", "z"}

UpperLetters ==
    {"A", "B", "C", "D", "E", "F", "G", "H", "I", "J", "K", "L", "M", "N",
    "O", "P", "Q", "R", "S", "T", "U", "V", "W", "X", "Y", "Z"}

Digits == {"0", "1", "2", "3", "4", "5", "6", "7", "8", "9"}

\* the null character
Nul == "NUL"

\* what String.prototype.trim() strips and \s matches
WhiteSpace == {" ", "\t", "\n"}

\* \w
WordChars == LowerLetters \cup UpperLetters \cup Digits \cup {"_"}

\* [a-zA-Z0-9_\-+=]
IdChars == LowerLetters \cup UpperLetters \cup Digits \cup {"_", "-", "+", "="}

ToLower ==
    ("A" :> "a") @@ ("B" :> "b") @@ ("C" :> "c") @@ ("D" :> "d") @@
    ("E" :> "e") @@ ("F" :> "f") @@ ("G" :> "g") @@ ("H" :> "h") @@
    ("I" :> "i") @@ ("J" :> "j") @@ ("K" :> "k") @@ ("L" :> "l") @@
    ("M" :> "m") @@ ("N" :> "n") @@ ("O" :> "o") @@ ("P" :> "p") @@
    ("Q" :> "q") @@ ("R" :> "r") @@ ("S" :> "s") @@ ("T" :> "t") @@
    ("U" :> "u") @@ ("V" :> "v") @@ ("W" :> "w") @@ ("X" :> "x") @@
    ("Y" :> "y") @@ ("Z" :> "z")

toLowerCase(s) ==
    [i \in 1..Len(s) |-> IF s[i] \in DOMAIN ToLower THEN ToLower[s[i]] ELSE s[i]]

Str(chars) == [type |-> "string", chars |-> chars]

NullValue == [type |-> "null", chars |-> <<>>]

UndefinedValue == [type |-> "undefined", chars |-> <<>>]

NumberValue == [type |-> "number", chars |-> <<>>]

\* !value || typeof value !== 'string'
missing(value) == value.type # "string" \/ value.chars = <<>>

RECURSIVE trimStart(_)
trimStart(s) ==
    IF s # <<>> /\ Head(s) \in WhiteSpace THEN trimStart(Tail(s)) ELSE s

RECURSIVE trimEnd(_)
trimEnd(s) ==
    IF s # <<>> /\ s[Len(s)] \in WhiteSpace
    THEN trimEnd(SubSeq(s, 1, Len(s) - 1))
    ELSE s

trim(s) == trimEnd(trimStart(s))

\* String.prototype.includes for one character
hasChar(s, ch) == \E i \in 1..Len(s) : s[i] = ch

\* String.prototype.includes / an unanchored literal pattern
hasSubstring(s, needle) ==
    \E i \in 1..(Len(s) - Len(needle) + 1) :
        SubSeq(s, i, i + Len(needle) - 1) = needle

\* the outcome of a validator: it returns, or throws a ValidationError
\* whose message names a token or not
Valid == [ok |-> TRUE, error |-> "none", token |-> <<>>]

Invalid(message) == [ok |-> FALSE, error |-> message, token |-> <<>>]

InvalidToken(message, token) == [ok |-> FALSE, error |-> message, token |-> token]

\* /^[a-zA-Z0-9_\-+=]+$/
validIdPattern(s) == s # <<>> /\ \A i \in 1..Len(s) : s[i] \in IdChars

\* an identifier validator that looks at the string it was given
validateListIdUntrimmed(listId) ==
    IF missing(listId) THEN Invalid("List ID is required")
    ELSE IF hasChar(listId.chars, Nul) THEN Invalid("List ID contains null bytes")
    ELSE IF ~validIdPattern(listId.chars) THEN Invalid("Invalid list ID format")
    ELSE IF Len(listId.chars) > IdMaxLength
         THEN Invalid("List ID exceeds maximum length")
    ELSE Valid

validateListId(listId) ==
    IF missing(listId) THEN Invalid("List ID is required")
    ELSE LET trimmedId == trim(listId.chars)
         IN IF hasChar(trimmedId, Nul) THEN Invalid("List ID contains null bytes")
            ELSE IF ~validIdPattern(trimmedId) THEN Invalid("Invalid list ID format")
            ELSE IF Len(trimmedId) > IdMaxLength
                 THEN Invalid("List ID exceeds maximum length")
            ELSE Valid

validateTaskId(taskId) == validateListId(taskId)

validatePlanId(planId) == validateListId(planId)

validateBucketId(bucketId) == validateListId(bucketId)

----------------------------------------------------------------------------
(* The OData filter validator *)

ALLOWED_FILTER_FIELDS ==
    {<<"s", "t", "a", "t", "u", "s">>,
     <<"i", "m", "p", "o", "r", "t", "a", "n", "c", "e">>,
     <<"d", "u", "e", "D", "a", "t", "e", "T", "i", "m", "e">>,
     <<"c", "r", "e", "a", "t", "e", "d", "D", "a", "t", "e", "T", "i", "m", "e">>,
     <<"l", "a", "s", "t", "M", "o", "d", "i", "f", "i", "e", "d", "D", "a", "t", "e", "T", "i", "m", "e">>,
     <<"i", "s", "R", "e", "m", "i", "n", "d", "e", "r", "O", "n">>,
     <<"t", "i", "t", "l", "e">>}

\* the operators of fieldPattern
ComparisonOperators ==
    {<<"e", "q">>,
     <<"n", "e">>,
     <<"g", "t">>,
     <<"g", "e">>,
     <<"l", "t">>,
     <<"l", "e">>}

\* the operators of operatorPattern, in the order of its alternatives
OperatorAlternatives ==
    <<<<"e", "q">>,
      <<"n", "e">>,
      <<"g", "t">>,
      <<"g", "e">>,
      <<"l", "t">>,
      <<"l", "e">>,
      <<"a", "n", "d">>,
      <<"o", "r">>,
      <<"n", "o", "t">>>>

ALLOWED_OPERATORS == {OperatorAlternatives[i] : i \in DOMAIN OperatorAlternatives}

\* /[;<>{}[\]\\]/
SuspiciousChars == {";", "<", ">", "{", "}", "[", "]", "\\"}

\* /\b(drop|delete|update|insert|exec|script|eval|process|require)\b/i
SuspiciousKeywords ==
    {<<"d", "r", "o", "p">>,
     <<"d", "e", "l", "e", "t", "e">>,
     <<"u", "p", "d", "a", "t", "e">>,
     <<"i", "n", "s", "e", "r", "t">>,
     <<"e", "x", "e", "c">>,
     <<"s", "c", "r", "i", "p", "t">>,
     <<"e", "v", "a", "l">>,
     <<"p", "r", "o", "c", "e", "s", "s">>,
     <<"r", "e", "q", "u", "i", "r", "e">>}

\* the index after the run of characters of class that starts at i
RECURSIVE runEnd(_, _, _)
runEnd(s, i, class) ==
    IF i <= Len(s) /\ s[i] \in class THEN runEnd(s, i + 1, class) ELSE i

\* \bword\b for a word of words, whatever the case
hasKeyword(s, words) ==
    \E i \in 1..Len(s) :
        /\ s[i] \in WordChars
        /\ i = 1 \/ s[i - 1] \notin WordChars
        /\ toLowerCase(SubSeq(s, i, runEnd(s, i, WordChars) - 1)) \in words

\* /on\w+\s*=/i
hasEventHandler(s) ==
    \E i \in 1..Len(s) :
        /\ i + 2 <= Len(s)
        /\ toLowerCase(SubSeq(s, i, i + 1)) = <<"o", "n">>
        /\ s[i + 2] \in WordChars
        /\ LET k == runEnd(s, runEnd(s, i + 2, WordChars), WhiteSpace)
           IN k <= Len(s) /\ s[k] = "="

suspiciousFilter(s) ==
    \/ \E i \in 1..Len(s) : s[i] \in SuspiciousChars
    \/ hasKeyword(s, SuspiciousKeywords)
    \/ hasSubstring(toLowerCase(s), <<"<", "s", "c", "r", "i", "p", "t">>)
    \/ hasSubstring(toLowerCase(s), <<"j", "a", "v", "a", "s", "c", "r", "i", "p", "t", ":">>)
    \/ hasEventHandler(s)

NoMatch == [found |-> FALSE, group |-> <<>>, end |-> 0]

\* a match of /(\w+)(?:\/\w+)?\s+(?:eq|ne|gt|ge|lt|le)/i that starts at i:
\* the runs of \w and \s are followed by a character outside their class,
\* so they are matched whole
fieldMatchAt(s, i) ==
    IF i > Len(s) \/ s[i] \notin WordChars THEN NoMatch
    ELSE LET j == runEnd(s, i, WordChars)
             k == IF j + 1 <= Len(s) /\ s[j] = "/" /\ s[j + 1] \in WordChars
                  THEN runEnd(s, j + 1, WordChars)
                  ELSE j
             q == runEnd(s, k, WhiteSpace)
         IN IF /\ q > k
               /\ q + 1 <= Len(s)
               /\ toLowerCase(SubSeq(s, q, q + 1)) \in ComparisonOperators
            THEN [found |-> TRUE, group |-> SubSeq(s, i, j - 1), end |-> q + 2]
            ELSE NoMatch

\* match[1] of every match of trimmedFilter.matchAll(fieldPattern), in order
RECURSIVE fieldMatches(_, _)
fieldMatches(s, i) ==
    IF i > Len(s) THEN <<>>
    ELSE LET m == fieldMatchAt(s, i)
         IN IF m.found THEN <<m.group>> \o fieldMatches(s, m.end)
            ELSE fieldMatches(s, i + 1)

\* the first alternative of operatorPattern that matches at q and is
\* followed by white space, 0 if none
RECURSIVE alternativeAt(_, _, _)
alternativeAt(s, q, n) ==
    IF n > Len(OperatorAlternatives) THEN 0
    ELSE LET alt == OperatorAlternatives[n]
             e == q + Len(alt)
         IN IF /\ e <= Len(s)
               /\ toLowerCase(SubSeq(s, q, e - 1)) = alt
               /\ s[e] \in WhiteSpace
            THEN n
            ELSE alternativeAt(s, q, n + 1)

\* a match of /\s+(eq|ne|gt|ge|lt|le|and|or|not)\s+/i that starts at i
operatorMatchAt(s, i) ==
    IF i > Len(s) \/ s[i] \notin WhiteSpace THEN NoMatch
    ELSE LET q == runEnd(s, i, WhiteSpace)
             n == alternativeAt(s, q, 1)
         IN IF n = 0 THEN NoMatch
            ELSE LET e == q + Len(OperatorAlternatives[n])
                 IN [found |-> TRUE, group |-> SubSeq(s, q, e - 1),
                     end |-> runEnd(s, e, WhiteSpace)]

\* match[1] of every match of trimmedFilter.matchAll(operatorPattern)
RECURSIVE operatorMatches(_, _)
operatorMatches(s, i) ==
    IF i > Len(s) THEN <<>>
    ELSE LET m == operatorMatchAt(s, i)
         IN IF m.found THEN <<m.group>> \o operatorMatches(s, m.end)
            ELSE operatorMatches(s, i + 1)

\* the first element of tokens that is not in allowed, <<>> if none
RECURSIVE firstBad(_, _)
firstBad(tokens, allowed) ==
    IF tokens = <<>> THEN <<>>
    ELSE IF Head(tokens) \notin allowed THEN Head(tokens)
    ELSE firstBad(Tail(tokens), allowed)

validateODataFilter(filter) ==
    IF missing(filter) \/ trim(filter.chars) = <<>> THEN Valid
    ELSE LET trimmedFilter == trim(filter.chars)
             field == firstBad(fieldMatches(trimmedFilter, 1),
                               ALLOWED_FILTER_FIELDS)
             operators == operatorMatches(trimmedFilter, 1)
             operator ==
                 firstBad([i \in 1..Len(operators) |-> toLowerCase(operators[i])],
                          ALLOWED_OPERATORS)
         IN IF hasChar(trimmedFilter, Nul)
            THEN Invalid("Filter contains null bytes")
            ELSE IF suspiciousFilter(trimmedFilter)
            THEN Invalid("Filter contains invalid characters or patterns")
            ELSE IF field # <<>>
            THEN InvalidToken("Invalid filter field", field)
            ELSE IF operator # <<>>
            THEN InvalidToken("Invalid operator", operator)
            ELSE Valid

----------------------------------------------------------------------------
(* The validators on their own: each is applied to any value of a bounded  *)
(* set of caller-supplied values.                                          *)

Repeat(ch, n) == [i \in 1..n |-> ch]

\* the characters identifiers are made of here: some of each allowed kind,
\* white space, and characters that must not reach a request path
IdAlphabet ==
    {"a", "Z", "7", "_", "-", "+", "=", " ", "\n", "/", ".", ";", Nul}

RECURSIVE StringsUpTo(_, _)
StringsUpTo(alphabet, n) ==
    IF n = 0 THEN {<<>>}
    ELSE LET shorter == StringsUpTo(alphabet, n - 1)
         IN shorter \cup {Append(s, ch) : s \in shorter, ch \in alphabet}

\* identifiers around the length limit, bare and padded with white space
LongIds ==
    {Repeat("a", IdMaxLength), Repeat("a", IdMaxLength + 1),
     <<" ">> \o Repeat("a", IdMaxLength),
     <<" ">> \o Repeat("a", IdMaxLength + 1)}

IdInputs ==
    {Str(s) : s \in StringsUpTo(IdAlphabet, MaxIdLen) \cup LongIds}
    \cup {NullValue, UndefinedValue, NumberValue}

\* filters as a caller writes them: one or two comparisons of a field with
\* a literal, joined by a logical operator.  A comparison is written infix
\* (field op 'x'), infix with the field in parentheses ((field) op 'x'), or
\* as a function call (op(field,'x')).
FilterFields ==
    {<<"s", "t", "a", "t", "u", "s">>, <<"t", "i", "t", "l", "e">>,
     <<"u", "s", "e", "r", "I", "d">>}

FilterOperators ==
    {<<"e", "q">>,
     <<"g", "t">>,
     <<"c", "o", "n", "t", "a", "i", "n", "s">>,
     <<"e", "q", "u", "a", "l", "s">>}

FilterForms == {"infix", "paren", "call"}

LogicalOperators == {<<"a", "n", "d">>, <<"o", "r">>}

Comparisons == [form : FilterForms, field : FilterFields, op : FilterOperators]

Literal == <<"'", "x", "'">>

renderComparison(c) ==
    IF c.form = "infix" THEN c.field \o <<" ">> \o c.op \o <<" ">> \o Literal
    ELSE IF c.form = "paren"
    THEN <<"(">> \o c.field \o <<")", " ">> \o c.op \o <<" ">> \o Literal
    ELSE c.op \o <<"(">> \o c.field \o <<",">> \o Literal \o <<")">>

\* a filter is a sequence: comparison, or comparison, logical operator,
\* comparison
FilterInputs ==
    {<<c>> : c \in Comparisons}
    \cup {<<c1, l, c2>> : c1 \in Comparisons, l \in LogicalOperators,
                          c2 \in Comparisons}

renderFilter(f) ==
    IF Len(f) = 1 THEN renderComparison(f[1])
    ELSE renderComparison(f[1]) \o <<" ">> \o f[2] \o <<" ">>
           \o renderComparison(f[3])

\* the fields and the operators a filter contains
fieldsOf(f) == IF Len(f) = 1 THEN {f[1].field} ELSE {f[1].field, f[3].field}

operatorsOf(f) ==
    IF Len(f) = 1 THEN {f[1].op} ELSE {f[1].op, f[2], f[3].op}

\* the validator calls that can be made, each with its argument
ValidatorCalls ==
    {[validator |-> "validateListId", argument |-> v] : v \in IdInputs}
    \cup {[validator |-> "validateODataFilter", argument |-> f] :
             f \in FilterInputs}

InitVal ==
    /\ now = 0
    /\ config = DefaultConfig
    /\ rateLimiter = RateLimiterNew(config, now)
    /\ circuitBreaker = CircuitBreakerNew
    /\ pc = [c \in Calls |-> "idle"]
    /\ call \in ValidatorCalls
    /\ last = NoLast
    /\ hist = NoHist

\* validateListId(listId)
ValidateListId ==
    /\ last = NoLast
    /\ call.validator = "validateListId"
    /\ last' = [op |-> "validateListId", input |-> call.argument,
                result |-> validateListId(call.argument)]
    /\ UNCHANGED <<now, config, rateLimiter, circuitBreaker, pc, call, hist>>

\* validateODataFilter(filter)
ValidateODataFilter ==
    /\ last = NoLast
    /\ call.validator = "validateODataFilter"
    /\ last' = [op |-> "validateODataFilter", input |-> call.argument,
                result |-> validateODataFilter(Str(renderFilter(call.argument)))]
    /\ UNCHANGED <<now, config, rateLimiter, circuitBreaker, pc, call, hist>>

NextVal ==
    \/ ValidateListId
    \/ ValidateODataFilter

SpecVal == InitVal /\ [][NextVal]_vars

----------------------------------------------------------------------------
(* Claims about the validators *)

\* C17: every identifier the identifier validator accepts is a non-empty
\* string of at most 200 characters, all of them in [A-Za-z0-9_\-+=], so
\* the string interpolated into the request path has no white space, slash,
\* dot or null byte.
C17_AcceptedIdIsClean ==
    (last.op = "validateListId" /\ last.result.ok) =>
        /\ last.input.type = "string"
        /\ last.input.chars # <<>>
        /\ Len(last.input.chars) <= IdMaxLength
        /\ \A i \in 1..Len(last.input.chars) : last.input.chars[i] \in IdChars

\* C16: the filter validator rejects every filter that contains a field
\* outside the whitelist of fields or an operator outside eq, ne, gt, ge,
\* lt, le, and, or, not, with a ValidationError that names an offending
\* token.
C16_UnknownTokenRejected ==
    (/\ last.op = "validateODataFilter"
     /\ \/ \E field \in fieldsOf(last.input) : field \notin ALLOWED_FILTER_FIELDS
        \/ \E op \in operatorsOf(last.input) : op \notin ALLOWED_OPERATORS)
    => /\ ~last.result.ok
       /\ \/ /\ last.result.token \in fieldsOf(last.input)
             /\ last.result.token \notin ALLOWED_FILTER_FIELDS
          \/ /\ last.result.token \in operatorsOf(last.input)
             /\ last.result.token \notin ALLOWED_OPERATORS

----------------------------------------------------------------------------
(* The validators of the write operations and of the search *)

\* /<script/i, /javascript:/i, /on\w+\s*=/i
suspiciousText(s) ==
    \/ hasSubstring(toLowerCase(s), <<"<", "s", "c", "r", "i", "p", "t">>)
    \/ hasSubstring(toLowerCase(s), <<"j", "a", "v", "a", "s", "c", "r", "i", "p", "t", ":">>)
    \/ hasEventHandler(s)

validateTaskTitle(title) ==
    IF missing(title) THEN Invalid("Task title is required")
    ELSE LET trimmed == trim(title.chars)
         IN IF Len(trimmed) = 0 THEN Invalid("Task title cannot be empty")
            ELSE IF Len(trimmed) > TitleMaxLength
            THEN Invalid("Task title exceeds maximum length")
            ELSE IF hasChar(trimmed, Nul)
            THEN Invalid("Task title contains null bytes")
            ELSE IF suspiciousText(trimmed)
            THEN Invalid("Task title contains invalid patterns")
            ELSE Valid

\* a date string together with what new Date(string) makes of it: NotADate,
\* or the whole years from today to that date
NotADate == -1000

DateStr(chars, years) == [type |-> "string", chars |-> chars, years |-> years]

validateDueDate(dateStr) ==
    IF missing(dateStr) THEN Invalid("Due date is required")
    ELSE IF hasChar(trim(dateStr.chars), Nul)
    THEN Invalid("Due date contains null bytes")
    ELSE IF dateStr.years = NotADate THEN Invalid("Invalid due date format")
    ELSE IF dateStr.years >= DueDateMaxYears
    THEN Invalid("Due date cannot be more than 5 years in the future")
    ELSE Valid

Priorities == {<<"l", "o", "w">>, <<"n", "o", "r", "m", "a", "l">>, <<"h", "i", "g", "h">>}

validatePriority(priority) ==
    IF priority.type = "string" /\ priority.chars \in Priorities THEN Valid
    ELSE InvalidToken("Invalid priority", priority.chars)

\* the command injection characters of validateSearchQuery
\* (the backquote is written out)
CommandChars == {";", "&", "|", "BACKQUOTE", "$", "(", ")"}

validateSearchQuery(query) ==
    IF missing(query) THEN Invalid("Search query is required")
    ELSE LET trimmedQuery == trim(query.chars)
         IN IF Len(trimmedQuery) = 0 THEN Invalid("Search query cannot be empty")
            ELSE IF Len(trimmedQuery) > QueryMaxLength
            THEN Invalid("Search query exceeds maximum length")
            ELSE IF hasChar(trimmedQuery, Nul)
            THEN Invalid("Search query contains null bytes")
            ELSE IF \/ suspiciousText(trimmedQuery)
                    \/ \E i \in 1..Len(trimmedQuery) :
                         trimmedQuery[i] \in CommandChars
            THEN Invalid("Search query contains invalid patterns")
            ELSE Valid

----------------------------------------------------------------------------
(* ToDoService: one service operation at a time, from its call to its end. *)
(* A call of the client is its limiter check followed, if admitted, by one *)
(* exchange with the upstream that resolves or rejects; what the client    *)
(* does in between is the subject of Spec.                                 *)

ServiceOps ==
    {"getTaskList", "getTasks", "getTask", "searchTasks", "createTask",
     "updateTask", "deleteTask", "createTaskList", "deleteTaskList"}

\* if (value): a non-empty string
truthy(value) == ~missing(value)

\* value ?? fallback takes the fallback
nullish(value) == value.type \in {"undefined", "null"}

whenTruthy(value, result) == IF truthy(value) THEN result ELSE Valid

\* the validators an operation runs before its request, in order, listId
\* being the effective list ID
validations(c, listId) ==
    IF c.op = "getTaskList" THEN <<validateListId(listId)>>
    ELSE IF c.op = "getTasks"
    THEN <<validateListId(listId),
           whenTruthy(c.filter, validateODataFilter(c.filter))>>
    ELSE IF c.op = "getTask"
    THEN <<validateListId(listId), validateTaskId(c.taskId)>>
    ELSE IF c.op = "searchTasks"
    THEN <<validateSearchQuery(c.query),
           whenTruthy(c.filter, validateODataFilter(c.filter))>>
    ELSE IF c.op = "createTask"
    THEN <<validateListId(listId), validateTaskTitle(c.title),
           whenTruthy(c.dueDateTime, validateDueDate(c.dueDateTime)),
           whenTruthy(c.importance, validatePriority(c.importance))>>
    ELSE IF c.op = "updateTask"
    THEN <<validateListId(listId), validateTaskId(c.taskId),
           whenTruthy(c.title, validateTaskTitle(c.title)),
           whenTruthy(c.dueDateTime, validateDueDate(c.dueDateTime)),
           whenTruthy(c.importance, validatePriority(c.importance))>>
    ELSE IF c.op = "deleteTask"
    THEN <<validateListId(listId), validateTaskId(c.taskId)>>
    ELSE IF c.op = "createTaskList" THEN <<validateTaskTitle(c.title)>>
    ELSE <<validateListId(listId)>>

\* the first validator that throws, Valid if none does
RECURSIVE firstFailure(_)
firstFailure(results) ==
    IF results = <<>> THEN Valid
    ELSE IF ~Head(results).ok THEN Head(results)
    ELSE firstFailure(Tail(results))

\* listId ?? await this.getDefaultListId()
needsDefaultList(c) == c.op \in {"getTasks", "createTask"} /\ nullish(c.listId)

\* what GET /me/todo/lists settles with: a rejection or the lists
ListOutcomes ==
    {[ok |-> FALSE, lists |-> <<>>],
     [ok |-> TRUE, lists |-> <<>>],
     [ok |-> TRUE,
      lists |-> <<[id |-> <<"d">>, wellknownListName |-> "defaultList"]>>],
     [ok |-> TRUE,
      lists |-> <<[id |-> <<"x">>, wellknownListName |-> "none"],
                  [id |-> <<"d">>, wellknownListName |-> "defaultList"]>>],
     [ok |-> TRUE,
      lists |-> <<[id |-> <<"x", "/">>, wellknownListName |-> "none"]>>]}

\* getDefaultListId(): the well-known default list, else the first list
defaultListId(lists) ==
    IF \E i \in 1..Len(lists) : lists[i].wellknownListName = "defaultList"
    THEN lists[CHOOSE i \in 1..Len(lists) :
                 /\ lists[i].wellknownListName = "defaultList"
                 /\ \A j \in 1..(i - 1) :
                      lists[j].wellknownListName # "defaultList"].id
    ELSE lists[1].id

\* the arguments of the operations
ListIdArgs == {Str(<<"a">>), Str(<<"a", "/">>)}

TaskIdArgs == {Str(<<"b">>), Str(<<".", ".">>)}

FilterArgs ==
    {UndefinedValue,
     Str(<<"s", "t", "a", "t", "u", "s", " ", "e", "q", " ", "'", "x", "'">>),
     Str(<<"u", "s", "e", "r", "I", "d", " ", "e", "q", " ", "'", "x", "'">>)}

TitleArgs == {Str(<<"t">>), Str(<<" ">>)}

DueDateArgs ==
    {UndefinedValue, DateStr(<<"2", "0", "3", "0">>, 3),
     DateStr(<<"x">>, NotADate)}

ImportanceArgs == {UndefinedValue, Str(<<"h", "i", "g", "h">>), Str(<<"x">>)}

QueryArgs == {Str(<<"q">>), Str(<<";">>)}

NoArgs ==
    [op |-> "none", listId |-> UndefinedValue, taskId |-> UndefinedValue,
     filter |-> UndefinedValue, title |-> UndefinedValue,
     dueDateTime |-> UndefinedValue, importance |-> UndefinedValue,
     query |-> UndefinedValue, stage |-> "start", calls |-> 0, requests |-> 0]

ServiceCalls ==
    {[NoArgs EXCEPT !.op = op, !.listId = l] :
        op \in {"getTaskList", "deleteTaskList"}, l \in ListIdArgs}
    \cup {[NoArgs EXCEPT !.op = "getTasks", !.listId = l, !.filter = f] :
            l \in ListIdArgs \cup {UndefinedValue}, f \in FilterArgs}
    \cup {[NoArgs EXCEPT !.op = op, !.listId = l, !.taskId = k] :
            op \in {"getTask", "deleteTask"}, l \in ListIdArgs, k \in TaskIdArgs}
    \cup {[NoArgs EXCEPT !.op = "searchTasks", !.query = q, !.filter = f] :
            q \in QueryArgs, f \in FilterArgs}
    \cup {[NoArgs EXCEPT !.op = "createTask", !.listId = l, !.title = s,
                         !.dueDateTime = d, !.importance = p] :
            l \in ListIdArgs \cup {UndefinedValue}, s \in TitleArgs,
            d \in DueDateArgs, p \in ImportanceArgs}
    \cup {[NoArgs EXCEPT !.op = "updateTask", !.listId = l, !.taskId = k,
                         !.title = s, !.dueDateTime = d, !.importance = p] :
            l \in ListIdArgs, k \in TaskIdArgs,
            s \in TitleArgs \cup {UndefinedValue, Str(<<>>)},
            d \in DueDateArgs, p \in ImportanceArgs}
    \cup {[NoArgs EXCEPT !.op = "createTaskList", !.title = s] : s \in TitleArgs}

InitSvc ==
    /\ now = 0
    /\ \E b \in 1..2 : config = [DefaultConfig EXCEPT !.burstAllowance = b]
    /\ rateLimiter = RateLimiterNew(config, now)
    /\ circuitBreaker = CircuitBreakerNew
    /\ pc = [c \in Calls |-> "idle"]
    /\ call \in ServiceCalls
    /\ last = NoLast
    /\ hist = NoHist

\* the operation ends: it returns or throws
SvcFinish(outcome, calls) ==
    /\ call' = [call EXCEPT !.stage = "done", !.calls = calls]
    /\ last' = [op |-> "service", outcome |-> outcome, calls |-> calls,
                requests |-> call.requests]

\* this.graphClient.get/post/patch/delete(...): the limiter check and, if
\* the call is admitted, the request; a RateLimitError ends the operation
\* unless it is caught
SvcRequest(stage, caught) ==
    LET r == checkLimit(rateLimiter, config, now)
    IN /\ rateLimiter' = r.rl
       /\ IF r.ok
          THEN /\ call' = [call EXCEPT !.stage = stage, !.calls = @ + 1,
                                       !.requests = @ + 1]
               /\ last' = last
          ELSE SvcFinish(IF caught THEN "resolved" ELSE "RateLimitError",
                         call.calls + 1)

\* the validators of the operation, then its request
SvcValidateAndRequest(listId) ==
    IF ~firstFailure(validations(call, listId)).ok
    THEN /\ SvcFinish("ValidationError", call.calls)
         /\ UNCHANGED rateLimiter
    ELSE SvcRequest(IF call.op = "searchTasks" THEN "lists" ELSE "main", FALSE)

\* a service whose operations validate what the caller sent before they
\* resolve the default list
SvcStartValidatesFirst ==
    /\ call.stage = "start"
    /\ last = NoLast
    /\ IF needsDefaultList(call)
       THEN IF ~firstFailure(Tail(validations(call, call.listId))).ok
            THEN /\ SvcFinish("ValidationError", call.calls)
                 /\ UNCHANGED rateLimiter
            ELSE SvcRequest("defaultList", FALSE)
       ELSE SvcValidateAndRequest(call.listId)
    /\ UNCHANGED <<now, config, circuitBreaker, pc, hist>>

\* the operation up to its first await
SvcStart ==
    /\ call.stage = "start"
    /\ last = NoLast
    /\ IF needsDefaultList(call)
       THEN SvcRequest("defaultList", FALSE)
       ELSE SvcValidateAndRequest(call.listId)
    /\ UNCHANGED <<now, config, circuitBreaker, pc, hist>>

\* getDefaultListId() settled: the rest of getTasks or createTask up to
\* its request
SvcDefaultListSettles(outcome) ==
    /\ call.stage = "defaultList"
    /\ IF ~outcome.ok
       THEN SvcFinish("failure", call.calls) /\ UNCHANGED rateLimiter
       ELSE IF outcome.lists = <<>>
       THEN SvcFinish("Error", call.calls) /\ UNCHANGED rateLimiter
       ELSE SvcValidateAndRequest(Str(defaultListId(outcome.lists)))
    /\ UNCHANGED <<now, config, circuitBreaker, pc, hist>>

\* getTaskLists() of searchTasks settled: getTasks(list.id, ...) of the
\* first list, whose errors are caught and logged
SvcListsSettle(outcome) ==
    /\ call.stage = "lists"
    /\ IF ~outcome.ok
       THEN SvcFinish("failure", call.calls) /\ UNCHANGED rateLimiter
       ELSE IF outcome.lists = <<>>
       THEN SvcFinish("resolved", call.calls) /\ UNCHANGED rateLimiter
       ELSE IF ~validateListId(Str(outcome.lists[1].id)).ok
       THEN SvcFinish("resolved", call.calls) /\ UNCHANGED rateLimiter
       ELSE SvcRequest("listTasks", TRUE)
    /\ UNCHANGED <<now, config, circuitBreaker, pc, hist>>

\* the request of the operation settled
SvcRequestSettles(ok) ==
    /\ call.stage \in {"main", "listTasks"}
    /\ SvcFinish(IF ok \/ call.stage = "listTasks" THEN "resolved"
                 ELSE "failure", call.calls)
    /\ UNCHANGED <<now, config, rateLimiter, circuitBreaker, pc, hist>>

NextSvc ==
    \/ SvcStart
    \/ \E outcome \in ListOutcomes : SvcDefaultListSettles(outcome)
    \/ \E outcome \in ListOutcomes : SvcListsSettle(outcome)
    \/ \E ok \in BOOLEAN : SvcRequestSettles(ok)

SpecSvc == InitSvc /\ [][NextSvc]_vars

----------------------------------------------------------------------------
(* Claims about the service *)

\* a value the caller of the operation supplied fails its validator
invalidCallerValue(c) ==
    \/ c.listId.type # "undefined" /\ ~validateListId(c.listId).ok
    \/ c.taskId.type # "undefined" /\ ~validateTaskId(c.taskId).ok
    \/ c.filter.type # "undefined" /\ ~validateODataFilter(c.filter).ok
    \/ c.title.type # "undefined" /\ ~validateTaskTitle(c.title).ok
    \/ c.dueDateTime.type # "undefined" /\ ~validateDueDate(c.dueDateTime).ok
    \/ c.importance.type # "undefined" /\ ~validatePriority(c.importance).ok
    \/ c.query.type # "undefined" /\ ~validateSearchQuery(c.query).ok

\* C14: a service operation one of whose caller-supplied values fails
\* validation ends with ValidationError without any client call: no
\* rate-limit token consumed and no request sent, also when the list ID is
\* omitted and the default list has to be resolved.
C14_ValidationBeforeNetwork ==
    (last.op = "service" /\ invalidCallerValue(call)) =>
        /\ last.outcome = "ValidationError"
        /\ last.calls = 0
        /\ last.requests = 0
        /\ rateLimiter = RateLimiterNew(config, now)

----------------------------------------------------------------------------
(* The error sanitizer.  A message is a sequence of words; a thrown value  *)
(* is an Error with a name, a message, a stack and, for a RateLimitError,  *)
(* retryAfterMs, or something that is not an Error.                        *)

InternalPath == "/internal/path/db.ts"

MessageWords == {"Service", "error", "stack", InternalPath}


ErrorNames == {"Error", "ValidationError", "RateLimitError", "TypeError"}

ThrownValues ==
    {[isError |-> TRUE, name |-> n, message |-> m,
      stack |-> <<n, ":">> \o m \o <<"at", InternalPath>>,
      retryAfterMs |-> IF n = "RateLimitError" THEN 5000 ELSE Undefined] :
        n \in ErrorNames, m \in StringsUpTo(MessageWords, MaxMessageLen)}
    \cup {[isError |-> FALSE, name |-> "none", message |-> m,
           stack |-> <<>>, retryAfterMs |-> Undefined] :
            m \in StringsUpTo(MessageWords, 1)}

NoCode == "undefined"

\* the object sanitizeError returns
sanitizeError(error) ==
    IF error.isError
    THEN [error |-> error.message,
          code |-> IF error.name # "Error" THEN error.name ELSE NoCode]
    ELSE [error |-> <<"An", "unexpected", "error", "occurred">>,
          code |-> NoCode]

\* JSON.stringify of that object, as a sequence of words: a property whose
\* value is undefined is left out
stringify(output) ==
    <<"{", "error", ":">> \o output.error
      \o (IF output.code # NoCode THEN <<",", "code", ":", output.code>>
          ELSE <<>>)
      \o <<"}">>

\* the keys of the serialized object
keys(output) ==
    {"error"} \cup (IF output.code # NoCode THEN {"code"} ELSE {})

InitSan ==
    /\ now = 0
    /\ config = DefaultConfig
    /\ rateLimiter = RateLimiterNew(config, now)
    /\ circuitBreaker = CircuitBreakerNew
    /\ pc = [c \in Calls |-> "idle"]
    /\ call \in ThrownValues
    /\ last = NoLast
    /\ hist = NoHist

\* sanitizeError(error) and the serialization of its result
SanitizeError ==
    /\ last = NoLast
    /\ last' = [op |-> "sanitizeError", output |-> sanitizeError(call),
                serialized |-> stringify(sanitizeError(call))]
    /\ UNCHANGED <<now, config, rateLimiter, circuitBreaker, pc, call, hist>>

NextSan ==
    \/ SanitizeError

SpecSan == InitSan /\ [][NextSan]_vars

----------------------------------------------------------------------------
(* Claims about the sanitizer *)

\* C15: for every thrown value the serialized output of the sanitizer has
\* no stack trace, no file path and no retryAfterMs: for an error with a
\* stack trace and an internal path in its message the output contains
\* neither the path nor the word "stack", and its only keys are error and,
\* for a named error kind, code.
C15_SanitizerNeverLeaks ==
    last.op = "sanitizeError" =>
        /\ ~hasSubstring(last.serialized, <<InternalPath>>)
        /\ ~hasSubstring(last.serialized, <<"stack">>)
        /\ ~hasSubstring(last.serialized, <<"retryAfterMs">>)
        /\ keys(last.output) \subseteq {"error", "code"}
        /\ "code" \in keys(last.output) <=> (call.isError /\ call.name # "Error")

----------------------------------------------------------------------------
(* The delete tools of the MCP server: delete_task, delete_task_list and    *)
(* delete_planner_task. The handler parses the arguments with the tool's    *)
(* schema and then calls the service, which validates the IDs and calls the *)
(* client. call.clientCalls is the sequence of client methods called.       *)

DeleteTools == {"delete_task", "delete_task_list", "delete_planner_task"}

BooleanValue(b) ==
    [type |-> "boolean", chars |-> <<IF b THEN "true" ELSE "false">>]

\* z.string()
zString(value) == value.type = "string"

\* a schema that takes any truthy confirm
zTruthy(value) ==
    /\ value.type \notin {"undefined", "null"}
    /\ value # BooleanValue(FALSE)
    /\ value # Str(<<>>)

\* z.literal(true)
zLiteralTrue(value) == value = BooleanValue(TRUE)

\* DeleteTaskSchema, DeleteTaskListSchema, DeletePlannerTaskSchema:
\* .parse(args) returns
schemaParses(c) ==
    /\ c.isObject
    /\ c.tool \in {"delete_task", "delete_task_list"} => zString(c.listId)
    /\ c.tool \in {"delete_task", "delete_planner_task"} => zString(c.taskId)
    /\ zLiteralTrue(c.confirm)

\* the validators the service runs before the client call
deleteValidations(c) ==
    IF c.tool = "delete_task"
    THEN <<validateListId(c.listId), validateTaskId(c.taskId)>>
    ELSE IF c.tool = "delete_task_list" THEN <<validateListId(c.listId)>>
    ELSE <<validateTaskId(c.taskId)>>

\* what the caller may send as confirm
ConfirmArgs ==
    {BooleanValue(TRUE), BooleanValue(FALSE),
     Str(<<"t", "r", "u", "e">>), Str(<<>>), NumberValue, NullValue,
     UndefinedValue}

NoToolArgs ==
    [tool |-> "none", isObject |-> TRUE, listId |-> UndefinedValue,
     taskId |-> UndefinedValue, confirm |-> UndefinedValue,
     stage |-> "start", clientCalls |-> <<>>]

ToolCalls ==
    {[NoToolArgs EXCEPT !.tool = "delete_task", !.listId = l, !.taskId = k,
                        !.confirm = f] :
        l \in ListIdArgs \cup {UndefinedValue},
        k \in TaskIdArgs \cup {UndefinedValue}, f \in ConfirmArgs}
    \cup {[NoToolArgs EXCEPT !.tool = "delete_task_list", !.listId = l,
                             !.confirm = f] :
            l \in ListIdArgs \cup {UndefinedValue}, f \in ConfirmArgs}
    \cup {[NoToolArgs EXCEPT !.tool = "delete_planner_task", !.taskId = k,
                             !.confirm = f] :
            k \in TaskIdArgs \cup {UndefinedValue}, f \in ConfirmArgs}
    \cup {[NoToolArgs EXCEPT !.tool = t, !.isObject = FALSE] : t \in DeleteTools}

\* what GET /planner/tasks/{id} settles with
TaskOutcomes == {"rejected", "noEtag", "etag"}

InitTool ==
    /\ now = 0
    /\ config = DefaultConfig
    /\ rateLimiter = RateLimiterNew(config, now)
    /\ circuitBreaker = CircuitBreakerNew
    /\ pc = [c \in Calls |-> "idle"]
    /\ call \in ToolCalls
    /\ last = NoLast
    /\ hist = NoHist

\* the handler ends: its result or the error it throws
ToolFinish(outcome) ==
    /\ call' = [call EXCEPT !.stage = "done"]
    /\ last' = [op |-> "tool", outcome |-> outcome]

\* this.graphClient.get(...) or .delete(...)
ToolClientCall(method, stage) ==
    /\ call' = [call EXCEPT !.stage = stage,
                            !.clientCalls = Append(@, method)]
    /\ last' = last

\* handleDeleteTask, handleDeleteTaskList, handleDeletePlannerTask up to
\* the first await
ToolStart ==
    /\ call.stage = "start"
    /\ IF ~schemaParses(call) THEN ToolFinish("ZodError")
       ELSE IF ~firstFailure(deleteValidations(call)).ok
       THEN ToolFinish("ValidationError")
       ELSE IF call.tool = "delete_planner_task"
       THEN ToolClientCall("GET", "getTask")
       ELSE ToolClientCall("DELETE", "delete")
    /\ UNCHANGED <<now, config, rateLimiter, circuitBreaker, pc, hist>>

\* plannerService.getTask() settled: the etag check and
\* plannerService.deleteTask()
ToolGetTaskSettles(outcome) ==
    /\ call.stage = "getTask"
    /\ IF outcome = "rejected" THEN ToolFinish("failure")
       ELSE IF outcome = "noEtag" THEN ToolFinish("Error")
       ELSE IF ~validateTaskId(call.taskId).ok
       THEN ToolFinish("ValidationError")
       ELSE ToolClientCall("DELETE", "delete")
    /\ UNCHANGED <<now, config, rateLimiter, circuitBreaker, pc, hist>>

\* the DELETE settled
ToolDeleteSettles(ok) ==
    /\ call.stage = "delete"
    /\ ToolFinish(IF ok THEN "deleted" ELSE "failure")
    /\ UNCHANGED <<now, config, rateLimiter, circuitBreaker, pc, hist>>

NextTool ==
    \/ ToolStart
    \/ \E outcome \in TaskOutcomes : ToolGetTaskSettles(outcome)
    \/ \E ok \in BOOLEAN : ToolDeleteSettles(ok)

SpecTool == InitTool /\ [][NextTool]_vars

----------------------------------------------------------------------------
(* Claims about the delete tools *)

\* C18: a delete tool call issues a DELETE request only if its arguments
\* carry confirm exactly equal to true; when confirm is absent, false or
\* any other value the call fails during argument parsing and no client
\* call of any kind, neither GET nor DELETE, is made.
C18_DeleteNeedsConfirm ==
    /\ (\E i \in 1..Len(call.clientCalls) : call.clientCalls[i] = "DELETE")
           => call.confirm = BooleanValue(TRUE)
    /\ call.confirm # BooleanValue(TRUE) =>
           /\ call.clientCalls = <<>>
           /\ call.stage = "done" => last = [op |-> "tool", outcome |-> "ZodError"]

\* a call whose confirm is the string "true" has failed in parsing
C18_Witness ==
    /\ call.stage = "done"
    /\ call.tool = "delete_planner_task"
    /\ call.confirm = Str(<<"t", "r", "u", "e">>)
    /\ validateTaskId(call.taskId).ok
    /\ call.clientCalls = <<>>
    /\ last = [op |-> "tool", outcome |-> "ZodError"]

----------------------------------------------------------------------------
(* The Planner write tools of the MCP server: update_planner_task,          *)
(* complete_planner_task, uncomplete_planner_task and delete_planner_task.  *)
(* call.requests is the sequence of requests handed to the client, each     *)
(* with its method and its If-Match header; call.task is what the first     *)
(* GET /planner/tasks/{id} settled with.                                    *)

PlannerWriteTools ==
    {"update_planner_task", "complete_planner_task",
     "uncomplete_planner_task", "delete_planner_task"}

\* what GET /planner/tasks/{id} settles with: a rejection, or a task whose
\* @odata.etag is absent, empty or a string
Rejected == [etag |-> UndefinedValue, rejected |-> TRUE]

PlannerTask(etag) == [etag |-> etag, rejected |-> FALSE]

Etags == {Str(<<"W", "1">>), Str(<<"W", "2">>)}

GetTaskOutcomes ==
    {Rejected}
    \cup {PlannerTask(e) : e \in {UndefinedValue, Str(<<>>)} \cup Etags}

\* no GET has settled
NoTask == [etag |-> UndefinedValue, rejected |-> FALSE, none |-> TRUE]

\* !etag is false
hasEtag(task) ==
    /\ task.etag.type \notin {"undefined", "null"}
    /\ task.etag # Str(<<>>)

\* UpdatePlannerTaskSchema, CompletePlannerTaskSchema,
\* DeletePlannerTaskSchema: .parse(args) returns
plannerSchemaParses(c) ==
    /\ c.isObject
    /\ zString(c.taskId)
    /\ c.tool = "delete_planner_task" => zLiteralTrue(c.confirm)
    /\ c.tool = "update_planner_task" =>
           \/ c.title.type = "undefined"
           \/ zString(c.title) /\ Len(c.title.chars) \in 1..TitleMaxLength

\* the validators updateTask() and deleteTask() run before the request
writeValidations(c) ==
    IF c.tool = "update_planner_task" /\ c.title.type # "undefined"
    THEN <<validateTaskId(c.taskId), validateTaskTitle(c.title)>>
    ELSE <<validateTaskId(c.taskId)>>

PlannerTitleArgs == {UndefinedValue, Str(<<"t">>), Str(<<" ">>), Str(<<>>)}

NoPlannerArgs ==
    [tool |-> "none", isObject |-> TRUE, taskId |-> UndefinedValue,
     title |-> UndefinedValue, confirm |-> UndefinedValue,
     stage |-> "start", requests |-> <<>>, task |-> NoTask]

PlannerCalls ==
    {[NoPlannerArgs EXCEPT !.tool = "update_planner_task", !.taskId = k,
                           !.title = s] :
        k \in TaskIdArgs \cup {UndefinedValue}, s \in PlannerTitleArgs}
    \cup {[NoPlannerArgs EXCEPT !.tool = t, !.taskId = k] :
            t \in {"complete_planner_task", "uncomplete_planner_task"},
            k \in TaskIdArgs \cup {UndefinedValue}}
    \cup {[NoPlannerArgs EXCEPT !.tool = "delete_planner_task", !.taskId = k,
                                !.confirm = f] :
            k \in TaskIdArgs \cup {UndefinedValue},
            f \in {BooleanValue(TRUE), BooleanValue(FALSE), UndefinedValue}}
    \cup {[NoPlannerArgs EXCEPT !.tool = t, !.isObject = FALSE] :
            t \in PlannerWriteTools}

InitPlanner ==
    /\ now = 0
    /\ config = DefaultConfig
    /\ rateLimiter = RateLimiterNew(config, now)
    /\ circuitBreaker = CircuitBreakerNew
    /\ pc = [c \in Calls |-> "idle"]
    /\ call \in PlannerCalls
    /\ last = NoLast
    /\ hist = NoHist

\* the handler ends: its result or the error it throws
PlannerFinish(outcome, task) ==
    /\ call' = [call EXCEPT !.stage = "done", !.task = task]
    /\ last' = [op |-> "tool", outcome |-> outcome]

\* this.graphClient.get(...), .patch(...) or .delete(...)
PlannerRequest(method, ifMatch, stage, task) ==
    /\ call' = [call EXCEPT
                  !.stage = stage,
                  !.task = task,
                  !.requests =
                      Append(@, [method |-> method, ifMatch |-> ifMatch])]
    /\ last' = last

\* the handler up to its first await: the schema, and getTask() of the
\* service
PlannerStart ==
    /\ call.stage = "start"
    /\ IF ~plannerSchemaParses(call) THEN PlannerFinish("ZodError", call.task)
       ELSE IF ~validateTaskId(call.taskId).ok
       THEN PlannerFinish("ValidationError", call.task)
       ELSE PlannerRequest("GET", UndefinedValue, "getTask", call.task)
    /\ UNCHANGED <<now, config, rateLimiter, circuitBreaker, pc, hist>>

\* updateTask(), completeTask(), uncompleteTask() or deleteTask() of the
\* service, called with the etag of the task fetched
plannerWrite(task) ==
    IF ~firstFailure(writeValidations(call)).ok
    THEN PlannerFinish("ValidationError", task)
    ELSE PlannerRequest(IF call.tool = "delete_planner_task"
                        THEN "DELETE" ELSE "PATCH",
                        task.etag, "write", task)

\* a handler that writes with whatever the fetched task carries
PlannerGetTaskSettlesUnchecked(outcome) ==
    /\ call.stage = "getTask"
    /\ IF outcome.rejected THEN PlannerFinish("failure", outcome)
       ELSE plannerWrite(outcome)
    /\ UNCHANGED <<now, config, rateLimiter, circuitBreaker, pc, hist>>

\* the first getTask() settled: the etag check and the call of the service
PlannerGetTaskSettles(outcome) ==
    /\ call.stage = "getTask"
    /\ IF outcome.rejected THEN PlannerFinish("failure", outcome)
       ELSE IF ~hasEtag(outcome) THEN PlannerFinish("Error", outcome)
       ELSE plannerWrite(outcome)
    /\ UNCHANGED <<now, config, rateLimiter, circuitBreaker, pc, hist>>

\* the PATCH or the DELETE settled; after a PATCH updateTask() fetches the
\* task again
PlannerWriteSettles(ok) ==
    /\ call.stage = "write"
    /\ IF ~ok THEN PlannerFinish("failure", call.task)
       ELSE IF call.tool = "delete_planner_task"
       THEN PlannerFinish("deleted", call.task)
       ELSE PlannerRequest("GET", UndefinedValue, "refetch", call.task)
    /\ UNCHANGED <<now, config, rateLimiter, circuitBreaker, pc, hist>>

\* the second getTask() settled
PlannerRefetchSettles(outcome) ==
    /\ call.stage = "refetch"
    /\ PlannerFinish(IF outcome.rejected THEN "failure" ELSE "updated",
                     call.task)
    /\ UNCHANGED <<now, config, rateLimiter, circuitBreaker, pc, hist>>

NextPlanner ==
    \/ PlannerStart
    \/ \E outcome \in GetTaskOutcomes : PlannerGetTaskSettles(outcome)
    \/ \E ok \in BOOLEAN : PlannerWriteSettles(ok)
    \/ \E outcome \in GetTaskOutcomes : PlannerRefetchSettles(outcome)

SpecPlanner == InitPlanner /\ [][NextPlanner]_vars

----------------------------------------------------------------------------
(* Claims about the Planner write tools *)

\* the positions of the PATCH and DELETE requests of the call
plannerWrites ==
    {i \in 1..Len(call.requests) :
        call.requests[i].method \in {"PATCH", "DELETE"}}

\* C27: every Planner write tool first performs a GET of the task and only
\* afterwards issues the PATCH or DELETE, whose If-Match header carries the
\* etag returned by that GET; if the fetched task has no etag, or the GET
\* fails, the tool call fails and no PATCH or DELETE is issued.
C27_WriteCarriesFetchedEtag ==
    /\ \A i \in plannerWrites :
          /\ i > 1
          /\ call.requests[1].method = "GET"
          /\ call.task # NoTask
          /\ ~call.task.rejected
          /\ hasEtag(call.task)
          /\ call.requests[i].ifMatch = call.task.etag
    /\ (call.task # NoTask /\ (call.task.rejected \/ ~hasEtag(call.task))) =>
          /\ plannerWrites = {}
          /\ call.stage = "done"
          /\ last.outcome \in {"failure", "Error"}

\* an update that fetched the task, patched it with the etag fetched and
\* fetched it again
C27_Witness ==
    /\ call.tool = "update_planner_task"
    /\ call.stage = "done"
    /\ last = [op |-> "tool", outcome |-> "updated"]
    /\ call.task = PlannerTask(Str(<<"W", "2">>))
    /\ call.requests =
           <<[method |-> "GET", ifMatch |-> UndefinedValue],
             [method |-> "PATCH", ifMatch |-> Str(<<"W", "2">>)],
             [method |-> "GET", ifMatch |-> UndefinedValue]>>

----------------------------------------------------------------------------
(* The client under concurrent calls: several get() calls in flight at     *)
(* once on one client, against a transport that answers 200 or 503 and a   *)
(* token provider that may fail, with time passing.                        *)

ConcurrentCalls == 1..NumConcurrentCalls

\* what the transport and the token provider answer
ConcurrentOutcomes == {Response(200), Response(503)}

InitConc ==
    /\ now = 0
    /\ config = [DefaultConfig EXCEPT !.burstAllowance = NumConcurrentCalls,
                                      !.failureThreshold = 1,
                                      !.successThreshold = 1,
                                      !.timeout = 1000,
                                      !.maxRetries = 1,
                                      !.baseRetryDelayMs = 500,
                                      !.transport = "any"]
    /\ rateLimiter = RateLimiterNew(config, now)
    /\ circuitBreaker = CircuitBreakerNew
    /\ pc = [c \in Calls |-> "idle"]
    /\ call = [c \in Calls |-> NoCall]
    /\ last = NoLast
    /\ hist = NoHist

NextConc ==
    \/ ClientTick
    \/ \E c \in ConcurrentCalls : ClientCall(c, "GET")
    \/ \E c \in ConcurrentCalls : BreakerEnter(c)
    \/ \E c \in ConcurrentCalls : TokenResolves(c)
    \/ \E c \in ConcurrentCalls : TokenRejects(c, NoTokensError)
    \/ \E c \in ConcurrentCalls, outcome \in ConcurrentOutcomes :
         FetchSettles(c, outcome)
    \/ \E c \in ConcurrentCalls : Wake(c)

SpecConc == InitConc /\ [][NextConc]_vars

----------------------------------------------------------------------------
(* Claims about the client under concurrent calls *)

\* C21: under concurrent client calls no transport request is issued at a
\* moment at which the circuit breaker is OPEN and its timeout has not
\* elapsed, the remaining retry attempts of calls admitted by the breaker
\* before it opened included.
C21_NoRequestWhileOpen ==
    [][\A c \in ConcurrentCalls :
         (pc[c] = "token" /\ pc'[c] = "fetch") =>
            ~(circuitBreaker.state = "OPEN"
              /\ now < circuitBreaker.nextAttemptTime)]_vars

----------------------------------------------------------------------------
(* Claims about the tokens a client call consumes *)

\* C22: every client verb call admitted by the rate limiter consumes
\* exactly one token, whatever happens next: the steps of the call after
\* its admission (the breaker check, also when the open breaker rejects the
\* call, the token fetch, the attempts, the retries and the recorded
\* outcome) leave the limiter as it is, so no retry consumes a token and no
\* failure returns one; a call rejected by the limiter consumes none.
C22_OneTokenPerAdmittedCall ==
    [][/\ last'.op = "call" =>
             rateLimiter'.tokens =
                 refillTokens(rateLimiter, config, now).tokens - TokenUnit
       /\ last'.op = "limited" =>
             rateLimiter'.tokens = refillTokens(rateLimiter, config, now).tokens
       /\ last'.op \in {"execute", "open", "token", "retry", "wake",
                        "success", "failure", "tick"} =>
             rateLimiter' = rateLimiter]_vars

\* a call that found the bucket full has just been rejected by the open
\* breaker: its token is gone
C22_Witness ==
    /\ last.op = "open"
    /\ last.fetches = 0
    /\ rateLimiter.lastRefillTime = now
    /\ rateLimiter.tokens = capacity(config) - TokenUnit
    /\ burstAllowance(config) >= 2

----------------------------------------------------------------------------
(* Claims about what the breaker counts *)

\* C23: every error thrown inside the breaker-wrapped function counts as a
\* breaker failure, whatever its kind (401, token-provider failure, 429,
\* another status, a thrown fetch, an unparsable body): a client call that
\* ends with an error adds one to the failure counter, the
\* failureThreshold-th such call in a row leaves the circuit OPEN, and a
\* call turned away by the open circuit ends with the circuit-open
\* GraphAPIError without the token provider or the transport being asked.
C23_EveryErrorCounts ==
    [][\A c \in ClientCalls :
         /\ (pc[c] \in {"token", "fetch"} /\ pc'[c] = "idle"
             /\ last'.error # NoError) =>
               /\ last'.op = "failure"
               /\ circuitBreaker'.failureCount = circuitBreaker.failureCount + 1
               /\ hist'.failStreak >= config.failureThreshold =>
                    /\ circuitBreaker'.state = "OPEN"
                    /\ circuitBreaker'.nextAttemptTime = now + config.timeout
         /\ (pc[c] = "admitted" /\ circuitBreaker.state = "OPEN"
             /\ now < circuitBreaker.nextAttemptTime /\ pc'[c] # "admitted") =>
               /\ pc'[c] = "idle"
               /\ last'.error.class = "GraphAPIError"
               /\ includes(last'.error.message, <<"Circuit", "breaker", "is", "open">>)
               /\ call[c].tries = 0
               /\ last'.fetches = 0]_vars

\* the second call in a row that ended with a 401, after a single request,
\* has just opened a circuit of threshold 2 in a client that retries
C23_Witness ==
    /\ config.failureThreshold = 2
    /\ config.maxRetries >= 1
    /\ last.op = "failure"
    /\ last.error = UnauthorizedError
    /\ last.fetches = 1
    /\ hist.failStreak = 2
    /\ circuitBreaker.state = "OPEN"
    /\ circuitBreaker.nextAttemptTime = now + config.timeout

----------------------------------------------------------------------------
(* Claims about the trial calls and the counters of the breaker *)

\* C24: while the breaker is HALF_OPEN every execute() call invokes the
\* wrapped function, however many trial calls are in flight, and each
\* completion is applied to the counters when it happens, whenever its call
\* was started: a success zeroes the failure counter and, in HALF_OPEN,
\* counts towards successThreshold; a failure adds one to the failure
\* counter and zeroes the success counter.
C24_HalfOpenTrialsUnbounded ==
    [][/\ (circuitBreaker.state = "HALF_OPEN" /\ last'.op = "execute") =>
             /\ last'.outcome = "invoked"
             /\ pc'[last'.c] = "running"
             /\ circuitBreaker' = circuitBreaker
       /\ last'.op = "success" =>
             /\ circuitBreaker'.failureCount = 0
             /\ circuitBreaker.state = "HALF_OPEN" =>
                  IF circuitBreaker.successCount + 1 >= config.successThreshold
                  THEN /\ circuitBreaker'.state = "CLOSED"
                       /\ circuitBreaker'.successCount = 0
                  ELSE /\ circuitBreaker'.state = "HALF_OPEN"
                       /\ circuitBreaker'.successCount =
                            circuitBreaker.successCount + 1
       /\ last'.op = "failure" =>
             /\ circuitBreaker'.failureCount = circuitBreaker.failureCount + 1
             /\ circuitBreaker'.successCount = 0]_vars

\* three trial calls are in flight at once in a HALF_OPEN breaker, the last
\* of them just started
C24_Witness ==
    /\ circuitBreaker.state = "HALF_OPEN"
    /\ last.op = "execute"
    /\ last.outcome = "invoked"
    /\ \A c \in Calls : pc[c] = "running"
    /\ hist.succStreak = 0
    /\ config.failureThreshold = MaxThreshold

----------------------------------------------------------------------------
(* The backoff of one client call whose every attempt fails transiently:   *)
(* the delays executeWithRetry sleeps, one per retry, until the retries are *)
(* exhausted.  call.attempt is the attempt argument, call.delays the delays *)
(* slept so far.                                                           *)

\* baseRetryDelayMs of the configurations
BaseDelays == {0, 1, 10, 100, 200, 500, DefaultBaseRetryDelayMs}

InitBackoff ==
    /\ now = 0
    /\ \E b \in BaseDelays, m \in 0..MaxRetryCap :
         config = [DefaultConfig EXCEPT !.baseRetryDelayMs = b, !.maxRetries = m]
    /\ rateLimiter = RateLimiterNew(config, now)
    /\ circuitBreaker = CircuitBreakerNew
    /\ pc = [c \in Calls |-> "idle"]
    /\ call = [attempt |-> 0, delays |-> <<>>]
    /\ last = NoLast
    /\ hist = NoHist

\* fn() failed with a transient error: the delay is computed and slept, and
\* executeWithRetry(fn, attempt + 1) is called
BackoffSleep(r) ==
    /\ executeWithRetry(Thrown(UnavailableError), call.attempt, config) = "sleep"
    /\ call' = [attempt |-> call.attempt + 1,
                delays |-> Append(call.delays,
                                  totalDelay(config, call.attempt, r))]
    /\ last' = [op |-> "sleep", delay |-> totalDelay(config, call.attempt, r)]
    /\ UNCHANGED <<now, config, rateLimiter, circuitBreaker, pc, hist>>

NextBackoff ==
    \/ \E r \in 0..(RandomSteps - 1) : BackoffSleep(r)

SpecBackoff == InitBackoff /\ [][NextBackoff]_vars

----------------------------------------------------------------------------
(* Claims about the backoff *)

RECURSIVE Sum(_)
Sum(s) == IF s = <<>> THEN 0 ELSE Head(s) + Sum(Tail(s))

\* the retries of the call are exhausted
exhausted == call.attempt >= config.maxRetries

\* baseDelayMs * (2^maxRetries - 1)
minTotal == config.baseRetryDelayMs * (Pow2(config.maxRetries) - 1)

----------------------------------------------------------------------------
(* The numbers of the rate limiter as the program computes them: IEEE 754  *)
(* binary64, the Number type.  A non-negative number is held exactly, as   *)
(* a natural number of units of 2^-FractionBits, and a natural number is a *)
(* sequence of limbs of LimbBits bits, least significant first, without    *)
(* leading zero limbs.  Every arithmetic operation computes the exact      *)
(* result and rounds it to MantissaBits significant bits, ties to even.    *)

LimbBits == 15
Base == 2 ^ LimbBits
FractionLimbs == 7
FractionBits == FractionLimbs * LimbBits
MantissaBits == 53

RECURSIVE TwoTo(_)
TwoTo(n) == IF n = 0 THEN 1 ELSE 2 * TwoTo(n - 1)

RECURSIVE Nat2Limbs(_)
Nat2Limbs(n) == IF n = 0 THEN <<>> ELSE <<n % Base>> \o Nat2Limbs(n \div Base)

RECURSIVE Limbs2Nat(_)
Limbs2Nat(a) == IF a = <<>> THEN 0 ELSE Head(a) + Base * Limbs2Nat(Tail(a))

RECURSIVE Trim(_)
Trim(a) ==
    IF a # <<>> /\ a[Len(a)] = 0 THEN Trim(SubSeq(a, 1, Len(a) - 1)) ELSE a

Limb(a, i) == IF i >= 1 /\ i <= Len(a) THEN a[i] ELSE 0

Max(a, b) == IF a >= b THEN a ELSE b

RECURSIVE AddFrom(_, _, _, _)
AddFrom(a, b, i, carry) ==
    IF i > Max(Len(a), Len(b))
    THEN IF carry = 0 THEN <<>> ELSE <<carry>>
    ELSE LET s == Limb(a, i) + Limb(b, i) + carry
         IN <<s % Base>> \o AddFrom(a, b, i + 1, s \div Base)

AddN(a, b) == AddFrom(a, b, 1, 0)

\* a - b for a >= b
RECURSIVE SubFrom(_, _, _, _)
SubFrom(a, b, i, borrow) ==
    IF i > Len(a) THEN <<>>
    ELSE LET s == Limb(a, i) - Limb(b, i) - borrow
         IN IF s < 0 THEN <<s + Base>> \o SubFrom(a, b, i + 1, 1)
            ELSE <<s>> \o SubFrom(a, b, i + 1, 0)

SubN(a, b) == Trim(SubFrom(a, b, 1, 0))

RECURSIVE LessFrom(_, _, _)
LessFrom(a, b, i) ==
    IF i = 0 THEN FALSE
    ELSE IF a[i] # b[i] THEN a[i] < b[i]
    ELSE LessFrom(a, b, i - 1)

\* a < b
LessN(a, b) ==
    IF Len(a) # Len(b) THEN Len(a) < Len(b) ELSE LessFrom(a, b, Len(a))

\* a * k for 0 <= k < Base
RECURSIVE MulFrom(_, _, _, _)
MulFrom(a, k, i, carry) ==
    IF i > Len(a) THEN IF carry = 0 THEN <<>> ELSE <<carry>>
    ELSE LET p == a[i] * k + carry
         IN <<p % Base>> \o MulFrom(a, k, i + 1, p \div Base)

MulSmall(a, k) == IF k = 0 THEN <<>> ELSE MulFrom(a, k, 1, 0)

ShiftLimbs(a, n) == IF a = <<>> THEN <<>> ELSE [i \in 1..n |-> 0] \o a

RECURSIVE MulN(_, _)
MulN(a, b) ==
    IF b = <<>> THEN <<>>
    ELSE AddN(MulSmall(a, Head(b)), ShiftLimbs(MulN(a, Tail(b)), 1))

\* a * 2^n
ShiftLeft(a, n) ==
    ShiftLimbs(MulSmall(a, TwoTo(n % LimbBits)), n \div LimbBits)

\* floor(a / 2^n)
ShiftRight(a, n) ==
    LET k == n \div LimbBits
        p == TwoTo(n % LimbBits)
        b == IF k >= Len(a) THEN <<>> ELSE SubSeq(a, k + 1, Len(a))
    IN Trim([i \in 1..Len(b) |->
               (b[i] \div p) + (Limb(b, i + 1) % p) * (Base \div p)])

RECURSIVE SmallBitLength(_)
SmallBitLength(n) == IF n = 0 THEN 0 ELSE 1 + SmallBitLength(n \div 2)

BitLength(a) ==
    IF a = <<>> THEN 0
    ELSE LimbBits * (Len(a) - 1) + SmallBitLength(a[Len(a)])

\* bit i of a, bit 0 being the least significant
Bit(a, i) ==
    (Limb(a, i \div LimbBits + 1) \div TwoTo(i % LimbBits)) % 2

\* the largest q with b * q <= r, from an estimate that is not below it
RECURSIVE Digit(_, _, _)
Digit(r, b, estimate) ==
    IF LessN(r, MulSmall(b, estimate)) THEN Digit(r, b, estimate - 1)
    ELSE estimate

\* long division of a by b, one limb of a at a time from limb j down to
\* limb 1, quot and rem being the quotient and the remainder of the limbs
\* above; the top limb of b is at least Base / 2, so that the estimate of a
\* digit from the two top limbs of the remainder is at most 2 above it
RECURSIVE DivLimbs(_, _, _, _, _)
DivLimbs(a, b, j, quot, rem) ==
    IF j = 0 \/ Len(quot) < 0 \/ Len(rem) < 0
    THEN [quot |-> Trim(quot), rem |-> rem]
    ELSE LET r == Trim(<<a[j]>> \o rem)
             n == Len(b)
             estimate == (Limb(r, n + 1) * Base + Limb(r, n)) \div b[n]
             q == Digit(r, b, IF estimate >= Base THEN Base - 1 ELSE estimate)
         IN DivLimbs(a, b, j - 1, <<q>> \o quot, SubN(r, MulSmall(b, q)))

\* floor(a / b) and a mod b, for b > 0
DivN(a, b) ==
    LET s == LimbBits - SmallBitLength(b[Len(b)])
        d == DivLimbs(ShiftLeft(a, s), ShiftLeft(b, s), Len(ShiftLeft(a, s)),
                      <<>>, <<>>)
    IN [quot |-> d.quot, rem |-> ShiftRight(d.rem, s)]

\* the exact value a, plus something below one unit if sticky, rounded to
\* MantissaBits significant bits, ties to even
Round(a, sticky) ==
    LET k == BitLength(a) - MantissaBits
    IN IF k <= 0 THEN a
       ELSE LET t == ShiftRight(a, k)
                guard == Bit(a, k - 1) = 1
                rest == sticky \/ ShiftLeft(ShiftRight(a, k - 1), k - 1) # a
                up == guard /\ (rest \/ Bit(t, 0) = 1)
            IN ShiftLeft(IF up THEN AddN(t, <<1>>) ELSE t, k)

\* the Number of an integer
Number(n) == ShiftLimbs(Nat2Limbs(n), FractionLimbs)

\* x + y, x - y (for x >= y), n * x for an integer n, x / y
Plus(x, y) == Round(AddN(x, y), FALSE)

Minus(x, y) == Round(SubN(x, y), FALSE)

Times(n, x) == Round(MulN(x, Nat2Limbs(n)), FALSE)

Divide(x, y) ==
    LET d == DivN(ShiftLeft(x, FractionBits), y)
    IN Round(d.quot, d.rem # <<>>)

\* x < y
Less(x, y) == LessN(x, y)

\* Math.min(x, y)
MathMin(x, y) == IF Less(y, x) THEN y ELSE x

\* Math.ceil(x), as an integer
MathCeil(x) ==
    LET whole == ShiftRight(x, FractionBits)
    IN Limbs2Nat(whole)
       + (IF ShiftLeft(whole, FractionBits) # x THEN 1 ELSE 0)

----------------------------------------------------------------------------
(* RateLimiter over the Number type: the fields of the class, tokens,      *)
(* refillRate and burstAllowance being binary64 numbers.                   *)

RateLimiterNewF64(cfg, t) ==
    [tokens |-> Number(burstAllowance(cfg)),
     refillRate |-> Divide(Number(cfg.maxRequestsPerMinute), Number(60000)),
     lastRefillTime |-> t,
     burstAllowance |-> Number(burstAllowance(cfg))]

refillTokensF64(rl, t) ==
    LET elapsedMs == t - rl.lastRefillTime
        tokensToAdd == Times(elapsedMs, rl.refillRate)
    IN IF tokensToAdd # <<>>
       THEN [rl EXCEPT !.tokens = MathMin(rl.burstAllowance,
                                          Plus(rl.tokens, tokensToAdd)),
                       !.lastRefillTime = t]
       ELSE rl

checkLimitF64(rl, t) ==
    LET r == refillTokensF64(rl, t)
    IN IF Less(r.tokens, Number(1))
       THEN [ok |-> FALSE, rl |-> r,
             waitTimeMs |->
                 MathCeil(Divide(Minus(Number(1), r.tokens), r.refillRate))]
       ELSE [ok |-> TRUE, rl |-> [r EXCEPT !.tokens = Minus(@, Number(1))],
             waitTimeMs |-> 0]

getAvailableTokensF64(rl, t) ==
    LET r == refillTokensF64(rl, t) IN [rl |-> r, value |-> r.tokens]

----------------------------------------------------------------------------
(* Two limiters of the same configuration driven by the same timed         *)
(* sequence of checkLimit() calls: rateLimiter, which is also asked        *)
(* getAvailableTokens() at arbitrary times in between, and call.twin,      *)
(* which is not.  call.retryAt is the earliest instant a rejection of      *)
(* rateLimiter has promised since its last admission.                      *)

StepsF64 == {1000, 5000}

RatesF64 == {10, DefaultMaxRequestsPerMinute}

InitF64 ==
    /\ now = 0
    /\ \E m \in RatesF64, b \in 1..2 :
         config = [DefaultConfig EXCEPT !.maxRequestsPerMinute = m,
                                        !.burstAllowance = b]
    /\ rateLimiter = RateLimiterNewF64(config, now)
    /\ circuitBreaker = CircuitBreakerNew
    /\ pc = [c \in Calls |-> "idle"]
    /\ call = [twin |-> RateLimiterNewF64(config, now), retryAt |-> Undefined]
    /\ last = NoLast
    /\ hist = NoHist

TickF64 ==
    /\ \E d \in StepsF64 :
         /\ now + d <= MaxNowF64
         /\ now' = now + d
    /\ last' = [op |-> "tick"]
    /\ UNCHANGED <<config, rateLimiter, circuitBreaker, pc, call, hist>>

\* checkLimit() on both limiters
CheckLimitF64 ==
    /\ LET r == checkLimitF64(rateLimiter, now)
           t == checkLimitF64(call.twin, now)
       IN /\ rateLimiter' = r.rl
          /\ call' = [twin |-> t.rl,
                      retryAt |-> IF r.ok THEN Undefined
                                  ELSE IF call.retryAt = Undefined
                                  THEN now + r.waitTimeMs
                                  ELSE Min(call.retryAt, now + r.waitTimeMs)]
          /\ last' = [op |-> "checkLimit", ok |-> r.ok, twinOk |-> t.ok,
                      waitTimeMs |-> r.waitTimeMs, promised |-> call.retryAt]
    /\ UNCHANGED <<now, config, circuitBreaker, pc, hist>>

\* an inserted getAvailableTokens(), on rateLimiter only
GetAvailableTokensF64 ==
    /\ LET r == getAvailableTokensF64(rateLimiter, now)
       IN /\ rateLimiter' = r.rl
          /\ last' = [op |-> "getAvailableTokens", value |-> r.value,
                      before |-> rateLimiter.tokens]
    /\ UNCHANGED <<now, config, circuitBreaker, pc, call, hist>>

\* the token count observed now on rateLimiter, and the one that would be
\* observed now on the twin, which is left as it is
ObserveF64 ==
    /\ LET r == getAvailableTokensF64(rateLimiter, now)
           t == getAvailableTokensF64(call.twin, now)
       IN /\ rateLimiter' = r.rl
          /\ last' = [op |-> "observe", value |-> r.value,
                      twinValue |-> t.value]
    /\ UNCHANGED <<now, config, circuitBreaker, pc, call, hist>>

NextF64 ==
    \/ TickF64
    \/ CheckLimitF64
    \/ GetAvailableTokensF64
    \/ ObserveF64

SpecF64 == InitF64 /\ [][NextF64]_vars

----------------------------------------------------------------------------
(* Claims about the counters of the breaker *)

\* C28: in every reachable breaker state, under any interleaving of
\* execute() completions and reset(), the success counter is 0 whenever the
\* stored state is not HALF_OPEN, and in HALF_OPEN it is strictly below
\* successThreshold between operations.
C28_SuccessCountBelowThreshold ==
    /\ circuitBreaker.state # "HALF_OPEN" => circuitBreaker.successCount = 0
    /\ circuitBreaker.state = "HALF_OPEN" =>
           circuitBreaker.successCount < config.successThreshold

\* C28, amended: the success counter is 0 whenever the stored state is not
\* HALF_OPEN; in HALF_OPEN it is strictly below successThreshold when
\* successThreshold >= 1, and 0 when successThreshold is 0.
C28_SuccessCountBelowPositiveThreshold ==
    /\ circuitBreaker.state # "HALF_OPEN" => circuitBreaker.successCount = 0
    /\ circuitBreaker.state = "HALF_OPEN" =>
           IF config.successThreshold >= 1
           THEN circuitBreaker.successCount < config.successThreshold
           ELSE circuitBreaker.successCount = 0

\* a trial call has succeeded in HALF_OPEN and the circuit stays HALF_OPEN,
\* one success below the threshold
C28_Witness ==
    /\ last.op = "success"
    /\ circuitBreaker.state = "HALF_OPEN"
    /\ config.successThreshold >= 2
    /\ circuitBreaker.successCount = config.successThreshold - 1

\* C29: for failureThreshold >= 1, in every reachable breaker state under
\* any interleaving of execute() completions and reset(), stored state
\* CLOSED implies failureCount < failureThreshold.
C29_ClosedBelowFailureThreshold ==
    config.failureThreshold >= 1 =>
        (circuitBreaker.state = "CLOSED" =>
             circuitBreaker.failureCount < config.failureThreshold)

\* a failure has been recorded and the circuit stays CLOSED, one failure
\* below the threshold
C29_Witness ==
    /\ last.op = "failure"
    /\ circuitBreaker.state = "CLOSED"
    /\ config.failureThreshold >= 2
    /\ circuitBreaker.failureCount = config.failureThreshold - 1

----------------------------------------------------------------------------
(* Claims about the limiter's arithmetic *)

\* C26: getAvailableTokens() never consumes a token and is observationally
\* read-only: inserting getAvailableTokens() calls at arbitrary times into
\* a timed sequence of checkLimit() calls changes neither which
\* checkLimit() calls succeed nor the token count observed at a later time.
C26_GetAvailableTokensReadOnly ==
    /\ last.op = "getAvailableTokens" => ~Less(last.value, last.before)
    /\ last.op = "checkLimit" => last.ok = last.twinOk
    /\ last.op = "observe" => last.value = last.twinValue

\* C30: the wait reported by a rejection is sufficient: a checkLimit()
\* rejected on a limiter of capacity >= 1 reports retryAfterMs = w > 0, and
\* a checkLimit() issued at least w milliseconds later, with no
\* checkLimit() admitted in between, succeeds.
C30_RetryAfterSufficient ==
    (last.op = "checkLimit" /\ ~last.ok) =>
        /\ last.waitTimeMs > 0
        /\ last.promised = Undefined \/ now < last.promised

====
